---- MODULE Spec2Model ----
(***************************************************************************)
(* Verification model of the problem-discovery pipeline of                 *)
(* scripts/problem_finder_mvp.py: the search-expand-filter-cluster loop    *)
(* (search_and_cluster), the bounded worker pool that fetches page content *)
(* (fetch_contents_for_sources), the source de-duplication                *)
(* (dedupe_sources), the statement functions, search_for_solution and the  *)
(* backfill loop; of update_database_with_problems in                      *)
(* scripts/problem_finder_update.py; and of the url cleanup of             *)
(* scripts/cleanup_urls.py.                                                *)
(*                                                                         *)
(* Text is modelled at two levels.  Titles and urls are sequences of       *)
(* one-character strings, so that strip(), lower() and split('#') are      *)
(* computed.  Snippets / page bodies are named texts drawn from a finite   *)
(* universe; the regex classifiers and the normalizer are tables over that *)
(* universe.  Embeddings are integer vectors and cosine similarity is      *)
(* computed from them.                                                     *)
(***************************************************************************)
EXTENDS Integers, Sequences, FiniteSets, TLC

VARIABLES
    \* search_and_cluster: locals of the function and its position
    pc, clusters, visited_queries, to_search, unmatched_sources, batch, idx,
    returned,
    \* history of search_and_cluster (not read by the program)
    searchLog, createdLog, appendLog, lastStep,
    \* fetch_contents_for_sources: the Source objects, the executor's work
    \* queue, the worker threads and the futures
    fpc, fInput, fSources, fNext, fWorker, fFuture, fReturned, fLog,
    \* dedupe_sources applied once and twice
    dpc, dIn, dOnce, dTwice,
    \* postprocess_problem_statement applied once and twice
    ppc, pIn, pOnce, pTwice,
    \* is_pain_point and calculate_product_potential_score applied to a text
    cpc, cIn, cScore, cVerdict,
    \* to_problem_statement applied to a text
    npc, nIn, nOut,
    \* update_database_with_problems: the problems, sources and
    \* problem_sources tables, the list of existing
    \* problems it was given, and the clusters still to be written
    upc, db_problems, db_sources, db_links, existing_problems, todo,
    \* the module globals that hold the models, the number of times each
    \* model was constructed since the last cleanup_resources, and the calls
    \* made so far (not read by the program)
    problem_gen, intent_classifier, embed_model, built, calls,
    \* search_for_solution: its position, the results the two searches
    \* return, where it raises, the queries issued, what it returned and
    \* the fields the finalization stored
    spc, sFirst, sSecond, sFail, sQueries, sRaised, sOut, sCluster,
    \* the backfill loop on its own: its position, its locals (clusters,
    \* unmatched queue) and the locals before the last iteration
    bpc, bState, bPrev,
    \* clean_sources_in_database: its position, the sources table, the rows
    \* it read and has still to process, which run of the script this is and
    \* the number of rows the run updated
    kpc, kTable, kRows, kRun, kUpdated

pipeVars  == <<pc, clusters, visited_queries, to_search, unmatched_sources,
               batch, idx, returned, searchLog, createdLog, appendLog, lastStep>>
fetchVars == <<fpc, fInput, fSources, fNext, fWorker, fFuture, fReturned, fLog>>
dedupVars == <<dpc, dIn, dOnce, dTwice>>
postVars  == <<ppc, pIn, pOnce, pTwice>>
classVars == <<cpc, cIn, cScore, cVerdict>>
normVars  == <<npc, nIn, nOut>>
storeVars == <<upc, db_problems, db_sources, db_links, existing_problems, todo>>
modelVars == <<problem_gen, intent_classifier, embed_model, built, calls>>
solVars   == <<spc, sFirst, sSecond, sFail, sQueries, sRaised, sOut, sCluster>>
fillVars  == <<bpc, bState, bPrev>>
cleanVars == <<kpc, kTable, kRows, kRun, kUpdated>>
auxVars   == <<solVars, fillVars, cleanVars>>
funcVars  == <<postVars, classVars, normVars, storeVars, modelVars, auxVars>>
vars      == <<pipeVars, fetchVars, dedupVars, funcVars>>

----------------------------------------------------------------------------
(* Configuration knobs (CONFIG section of the script).  The model runs the *)
(* pipeline with small values of the tunable knobs.                        *)

NUM_PROBLEMS == 2
EXPANSION_RESULTS_PER_PROBLEM == 2
\* the literal 6 of max(EXPANSION_RESULTS_PER_PROBLEM, 6)
MinSourceCap == 6
\* SIM_THRESHOLD = 0.85, in hundredths
SIM_THRESHOLD == 85
\* max_workers of fetch_contents_for_sources
MaxWorkers == 2
\* longest list handed to dedupe_sources / fetch_contents_for_sources on
\* their own
MaxLen == 3
\* most fragments in a statement handed to postprocess_problem_statement
MaxFragments == 2
\* occurrences counted per scored list in a classified text
MaxCount == 5
\* extraction rules whose pattern matches in a normalized text
MaxMatches == 2
\* clusters in one call of update_database_with_problems
MaxBatch == 2
\* calls that use the models in one process
MaxCalls == 4
\* results a solution search returns
MaxResults == 2
\* parked pairs in the unmatched queue handed to the backfill loop
MaxQueue == 4
\* rows of the sources table handed to the url cleanup
MaxSources == 3

Max(a, b) == IF a >= b THEN a ELSE b
Min(a, b) == IF a <= b THEN a ELSE b
Take(s, n) == SubSeq(s, 1, Min(n, Len(s)))
RemoveAt(s, i) == SubSeq(s, 1, i - 1) \o SubSeq(s, i + 1, Len(s))
SeqToSet(s) == {s[i] : i \in 1..Len(s)}

----------------------------------------------------------------------------
(* Strings as character sequences: str.lower, str.strip, url.split('#')[0] *)

\* the characters and words of the model that have an upper-case letter
Lower(c) ==
    CASE c = "A" -> "a" [] c = "B" -> "b" [] c = "C" -> "c"
      [] c = "Need" -> "need" [] c = "Find" -> "find" [] c = "Fix" -> "fix"
      [] c = "Reddit" -> "reddit" [] c = "MacRumors" -> "macrumors"
      [] c = "Forums" -> "forums" [] c = "Super" -> "super" [] c = "User" -> "user"
      [] c = "Excel" -> "excel" [] c = "Windows" -> "windows" [] c = "One" -> "one"
      [] c = "R/Excel" -> "r/excel" [] c = "A/C" -> "a/c" [] c = "IDE" -> "ide"
      [] c = "Objective-C" -> "objective-c" [] c = "Verilog" -> "verilog"
      [] c = "Laravel" -> "laravel" [] c = "GNOME" -> "gnome" [] c = "APIs" -> "apis"
      [] c = "SKIP" -> "skip" [] c = "Problem:" -> "problem:"
      [] OTHER -> c
LowerSeq(s) == [i \in 1..Len(s) |-> Lower(s[i])]

RECURSIVE LStrip(_)
LStrip(s) == IF s # <<>> /\ Head(s) = " " THEN LStrip(Tail(s)) ELSE s
RECURSIVE RStrip(_)
RStrip(s) == IF s # <<>> /\ s[Len(s)] = " " THEN RStrip(SubSeq(s, 1, Len(s) - 1)) ELSE s
Strip(s) == RStrip(LStrip(s))

RECURSIVE BeforeHash(_)
BeforeHash(u) ==
    IF u = <<>> \/ Head(u) = "#" THEN <<>> ELSE <<Head(u)>> \o BeforeHash(Tail(u))

\* a plausible slip: the key keeps the raw title and the whole url
SourceKeyRaw(s) == <<s.title, s.url>>
\* key = (s.title.strip().lower(), s.url.split('#')[0])
SourceKey(s) == <<LowerSeq(Strip(s.title)), BeforeHash(s.url)>>

\* a plausible slip: duplicates are deleted from the list being iterated,
\* so the element after a deleted one is skipped
RECURSIVE RemoveWhileIterating(_, _, _)
RemoveWhileIterating(lst, i, seen) ==
    IF i > Len(lst) THEN lst
    ELSE IF SourceKey(lst[i]) \in seen
         THEN RemoveWhileIterating(RemoveAt(lst, i), i + 1, seen)
         ELSE RemoveWhileIterating(lst, i + 1, seen \cup {SourceKey(lst[i])})
dedupe_in_place(sources) == RemoveWhileIterating(sources, 1, {})

\* a plausible slip: the later element of a key replaces the earlier one
RECURSIVE KeepLastLoop(_)
KeepLastLoop(sources) ==
    IF sources = <<>> THEN <<>>
    ELSE IF \E j \in 2..Len(sources) : SourceKey(sources[j]) = SourceKey(Head(sources))
         THEN KeepLastLoop(Tail(sources))
         ELSE <<Head(sources)>> \o KeepLastLoop(Tail(sources))
dedupe_keep_last(sources) == KeepLastLoop(sources)

RECURSIVE DedupeLoop(_, _, _)
DedupeLoop(sources, seen, out) ==
    IF sources = <<>> THEN out
    ELSE LET s == Head(sources)
             key == SourceKey(s)
         IN  IF key \in seen
             THEN DedupeLoop(Tail(sources), seen, out)
             ELSE DedupeLoop(Tail(sources), seen \cup {key}, Append(out, s))
dedupe_sources(sources) == DedupeLoop(sources, {}, <<>>)

----------------------------------------------------------------------------
(* Problem statements as token sequences.  A token is a word (with any     *)
(* comma or quote attached), one whitespace character " ", one of the      *)
(* marks "." "!" "?" "{" "}", "-" or "|".  str.lower works token by token  *)
(* (Lower above); a substring test on a single word is the table           *)
(* Contains, a test for a phrase is a search for its tokens.               *)

\* the words w, separated by single blanks
RECURSIVE Sp(_)
Sp(w) == IF Len(w) <= 1 THEN w ELSE <<Head(w), " ">> \o Sp(Tail(w))
Sentence(w) == Sp(w) \o <<".">>

\* sub in w, for a word w and a one-word sub
SubstringPairs ==
    { <<"tires", "tire">>, <<"batteries", "battery">>, <<"cars", "car">>,
      <<"apps", "app">>, <<"tools", "tool">>, <<"toolbar", "tool">>,
      <<"tracking", "track">>, <<"tracker", "track">>, <<"syncing", "sync">>,
      <<"files", "file">>, <<"columns", "column">>, <<"coworkers", "coworker">>,
      <<"atoms", "atom">>, <<"them", "him">>, <<"rotations,", "rotations">> }
Contains(w, sub) == w = sub \/ <<w, sub>> \in SubstringPairs
HasWord(s, sub) == \E i \in 1..Len(s) : Contains(s[i], sub)
HasAnyWord(s, subs) == \E sub \in subs : HasWord(s, sub)

\* str.startswith, and the position of the first occurrence of a phrase
\* (0 when it does not occur)
StartsWith(s, p) == Len(s) >= Len(p) /\ SubSeq(s, 1, Len(p)) = p
FindPhrase(s, p) ==
    LET at == {i \in 1..(Len(s) - Len(p) + 1) : SubSeq(s, i, i + Len(p) - 1) = p}
    IN  IF at = {} THEN 0 ELSE CHOOSE i \in at : \A j \in at : i <= j
HasPhrase(s, p) == FindPhrase(s, p) # 0

\* problem.endswith((".", "!", "?"))
EndsTerminal(s) == s # <<>> /\ s[Len(s)] \in {".", "!", "?"}
\* if not problem.endswith((".", "!", "?")): problem += "."
EnsureTerminal(s) == IF EndsTerminal(s) THEN s ELSE Append(s, ".")

\* r/\w+ : a subreddit tag
IsSubredditTag(w) == Lower(w) \in {"r/excel", "r/sysadmin", "r/apple"}

\* Regular expressions over tokens.  A pattern is a sequence of elements:
\*   ws+ ws*   \s+ \s*            lit   a token, compared ignoring case
\*   exact     a token            tag   r/\w+
\*   not.+     [^\.]+             not}* [^}]*
\*   rest      .*
\* MatchEnd is the position just after the match of pat that starts at
\* s[i], 0 when there is none; every quantifier is greedy and, the
\* classes of adjacent elements being disjoint, needs no backtracking.
Ws1 == [k |-> "ws+"]
Ws0 == [k |-> "ws*"]
Lit(t) == [k |-> "lit", t |-> t]
Exact(t) == [k |-> "exact", t |-> t]
LitPhrase(p) == [i \in 1..Len(p) |-> Lit(p[i])]
ExactPhrase(p) == [i \in 1..Len(p) |-> Exact(p[i])]

RECURSIVE MatchEnd(_, _, _)
MatchEnd(pat, s, i) ==
    IF pat = <<>> THEN i
    ELSE LET e == Head(pat)
             in == i <= Len(s)
         IN  CASE e.k = "ws+" ->
                    IF in /\ s[i] = " " THEN MatchEnd(<<Ws0>> \o Tail(pat), s, i + 1) ELSE 0
               [] e.k = "ws*" ->
                    IF in /\ s[i] = " " THEN MatchEnd(pat, s, i + 1)
                    ELSE MatchEnd(Tail(pat), s, i)
               [] e.k = "lit" ->
                    IF in /\ Lower(s[i]) = e.t THEN MatchEnd(Tail(pat), s, i + 1) ELSE 0
               [] e.k = "exact" ->
                    IF in /\ s[i] = e.t THEN MatchEnd(Tail(pat), s, i + 1) ELSE 0
               [] e.k = "tag" ->
                    IF in /\ IsSubredditTag(s[i]) THEN MatchEnd(Tail(pat), s, i + 1) ELSE 0
               [] e.k = "not.+" ->
                    IF in /\ s[i] # "."
                    THEN MatchEnd(<<[k |-> "not.*"]>> \o Tail(pat), s, i + 1) ELSE 0
               [] e.k = "not.*" ->
                    IF in /\ s[i] # "." THEN MatchEnd(pat, s, i + 1)
                    ELSE MatchEnd(Tail(pat), s, i)
               [] e.k = "not}*" ->
                    IF in /\ s[i] # "}" THEN MatchEnd(pat, s, i + 1)
                    ELSE MatchEnd(Tail(pat), s, i)
               [] e.k = "rest" -> MatchEnd(Tail(pat), s, Len(s) + 1)

\* re.search: the leftmost position at which pat matches, 0 when none
ReSearch(pat, s) ==
    LET at == {i \in 1..Len(s) : MatchEnd(pat, s, i) # 0}
    IN  IF at = {} THEN 0 ELSE CHOOSE i \in at : \A j \in at : i <= j

\* re.sub(pat, repl, s): the leftmost non-overlapping matches are replaced;
\* the scan resumes just after each match
RECURSIVE ReSubFrom(_, _, _, _)
ReSubFrom(pat, repl, s, i) ==
    IF i > Len(s) THEN <<>>
    ELSE LET e == MatchEnd(pat, s, i)
         IN  IF e # 0 THEN repl \o ReSubFrom(pat, repl, s, e)
             ELSE <<s[i]>> \o ReSubFrom(pat, repl, s, i + 1)
ReSub(pat, repl, s) == ReSubFrom(pat, repl, s, 1)

\* re.search(r"phrase ([^\.]+)", s): whether it matches, and its group(1)
\* at the leftmost match, stripped
GroupPattern(phrase) == phrase \o <<[k |-> "not.+"]>>
GroupFound(phrase, s) == ReSearch(GroupPattern(phrase), s) # 0
GroupText(phrase, s) ==
    LET i == ReSearch(GroupPattern(phrase), s)
    IN  Strip(SubSeq(s, i + Len(phrase), MatchEnd(GroupPattern(phrase), s, i) - 1))

\* len(problem.split()): the maximal runs of non-blank tokens
WordCount(s) ==
    Cardinality({i \in 1..Len(s) : s[i] # " " /\ (i = 1 \/ s[i - 1] = " ")})

----------------------------------------------------------------------------
(* postprocess_problem_statement                                           *)

\* the value None, which is no string
NoneStmt == <<"<None>">>

ACTIONABLE_VERBS ==
    { "track", "automate", "manage", "schedule", "monitor", "organize",
      "sync", "backup", "secure", "protect", "analyze", "visualize",
      "integrate", "connect", "combine", "generate", "extract", "transform",
      "convert", "calculate", "predict", "compare", "filter", "prioritize",
      "streamline", "optimize", "accelerate", "detect" }

\* term in text, for a term of one or several words
InText(s, term) == IF Len(term) = 1 THEN HasWord(s, term[1]) ELSE HasPhrase(s, term)

\* lines 1406-1409: "Need a way to" becomes "Need a tool to" when the
\* statement holds an actionable verb
ToolFocus(p) ==
    IF /\ StartsWith(LowerSeq(p), Sp(<<"need", "a", "way", "to">>))
       /\ HasAnyWord(LowerSeq(p), ACTIONABLE_VERBS)
    THEN Sp(<<"Need", "a", "tool", "to">>) \o SubSeq(p, 8, Len(p))
    ELSE p

\* lines 1412-1417: the six substitutions, in order
RemoveCommonIssues(p) ==
    LET tag == [k |-> "tag"]
        rest == [k |-> "rest"]
        p1 == ReSub(<<Ws1, Lit("for"), Lit(" "), Lit("replacement"), Ws0, Lit(".")>>,
                    <<".">>, p)
        p2 == ReSub(<<Ws1, tag, Ws1>>, <<" ">>, p1)
        p3 == ReSub(<<Ws1, tag, Lit("."), Ws0>>, <<".">>, p2)
        p4 == ReSub(<<Ws1, Lit("|"), Ws1, Lit("macrumors"), Ws1, Lit("forums"), rest>>,
                    <<>>, p3)
        p5 == ReSub(<<Ws1, Lit("-"), Ws1, Lit("reddit"), rest>>, <<>>, p4)
    IN  ReSub(<<Ws1, Lit("-"), Ws1, Lit("super"), Ws1, Lit("user"), rest>>, <<>>, p5)

\* line 1420
GenericStatements ==
    { Sentence(<<"Need", "a", "solution", "for", "this", "problem">>),
      Sentence(<<"Need", "a", "solution">>) }

GenericReplacement ==
    Sentence(<<"Need", "a", "tool", "to", "solve", "this", "specific",
    "problem", "more", "effectively">>)

\* lines 1424-1443: "find the best X"
FindBestPhrase == LitPhrase(Sp(<<"find", "the", "best">>) \o <<" ">>)
FindBestApplies(p) ==
    /\ HasPhrase(LowerSeq(p), Sp(<<"find", "the", "best">>))
    /\ GroupFound(FindBestPhrase, p)
FindBestRewrite(p) ==
    LET item_text == GroupText(FindBestPhrase, p)
        low == LowerSeq(item_text)
    IN  IF HasWord(item_text, "tire") THEN
               Sentence(<<"Need", "a", "tool", "to", "compare", "tire",
               "options", "based", "on", "car", "model,", "driving", "habits,",
               "and", "budget">>)
        ELSE IF HasWord(item_text, "battery") THEN
               Sentence(<<"Need", "a", "tool", "to", "recommend", "compatible",
               "batteries", "based", "on", "device", "specifications">>)
        ELSE IF HasWord(item_text, "car") THEN
               Sentence(<<"Need", "a", "platform", "to", "match", "users",
               "with", "the", "ideal", "vehicle", "based", "on", "their",
               "needs", "and", "budget">>)
        ELSE IF HasWord(item_text, "computer") \/ HasWord(item_text, "laptop") THEN
               Sentence(<<"Need", "a", "tool", "to", "recommend", "the",
               "ideal", "computer", "specs", "based", "on", "user's",
               "specific", "use", "cases">>)
        ELSE IF HasWord(low, "a/c") \/ HasPhrase(low, Sp(<<"ac", "unit">>)) THEN
               Sentence(<<"Need", "a", "tool", "to", "calculate", "optimal",
               "A/C", "unit", "size", "and", "efficiency", "for", "specific",
               "spaces">>)
        ELSE IF HasAnyWord(item_text, {"app", "tool", "software"}) THEN
               Sp(<<"Need", "a", "platform", "to", "discover", "and", "compare">>) \o <<" ">>
               \o item_text \o <<" ">>
               \o Sentence(<<"based", "on", "specific", "requirements">>)
        ELSE
               Sp(<<"Need", "a", "recommendation", "engine", "for">>) \o <<" ">>
               \o item_text \o <<" ">>
               \o Sentence(<<"based", "on", "user", "preferences", "and", "needs">>)

\* lines 1446-1480: "address frustrations with X"
FrustrationPhrase == ExactPhrase(Sp(<<"address", "frustrations", "with">>) \o <<" ">>)
topic_map ==
    << <<<<"dating">>,
         Sentence(<<"Need", "a", "dating", "app", "with", "better", "matching",
         "algorithms", "and", "compatibility", "indicators">>)>>,
       <<<<"coworker">>,
         Sentence(<<"Need", "a", "team", "collaboration", "tool", "with",
         "conflict", "resolution", "features", "and", "communication",
         "tracking">>)>>,
       <<<<"team", "members">>,
         Sentence(<<"Need", "a", "team", "management", "platform", "with",
         "performance", "analytics", "and", "communication", "improvement",
         "tools">>)>>,
       <<<<"producing">>,
         Sentence(<<"Need", "a", "music", "production", "assistant", "that",
         "helps", "overcome", "creative", "blocks", "and", "streamlines",
         "workflow">>)>>,
       <<<<"my", "friend">>,
         Sentence(<<"Need", "a", "relationship", "management", "tool", "to",
         "improve", "communication", "and", "resolve", "conflicts">>)>>,
       <<<<"him">>,
         Sentence(<<"Need", "a", "family/child", "management", "platform",
         "to", "track", "progress", "and", "reduce", "conflict">>)>>,
       <<<<"objective-c", "code">>,
         Sentence(<<"Need", "a", "better", "IDE", "or", "conversion", "tool",
         "for", "Objective-C", "development", "that", "simplifies", "syntax",
         "and", "improves", "productivity">>)>>,
       <<<<"simple", "verilog">>,
         Sentence(<<"Need", "an", "improved", "Verilog", "development",
         "environment", "with", "better", "debugging", "and", "simulation",
         "tools">>)>>,
       <<<<"atom">>,
         Sentence(<<"Need", "a", "more", "reliable", "text", "editor", "with",
         "better", "extension", "management", "and", "fewer", "configuration",
         "issues">>)>>,
       <<<<"laravel", "5", "blades">>,
         Sentence(<<"Need", "a", "template", "debugging", "tool", "for",
         "Laravel", "that", "visualizes", "component", "relationships", "and",
         "simplifies", "blade", "syntax">>)>>,
       <<<<"gnome", "documentation">>,
         Sentence(<<"Need", "a", "better", "documentation", "browser", "that",
         "indexes", "and", "makes", "GNOME", "APIs", "more", "accessible">>)>>,
       <<<<"my", "lack", "of", "progress">>,
         Sentence(<<"Need", "a", "progress", "tracking", "tool", "with",
         "analytics", "and", "milestone", "management", "for", "personal",
         "development">>)>> >>
product_words == <<"tool", "platform", "app", "solution", "system", "manager">>

\* for topic, replacement in topic_map.items(): the first topic found
FirstTopic(low) ==
    LET hit == {i \in 1..Len(topic_map) : InText(low, topic_map[i][1])}
    IN  IF hit = {} THEN 0 ELSE CHOOSE i \in hit : \A j \in hit : i <= j

FrustrationApplies(p) ==
    /\ HasPhrase(p, Sp(<<"address", "frustrations", "with">>))
    /\ GroupFound(FrustrationPhrase, p)
FrustrationRewrite(p) ==
    LET frustration_topic == GroupText(FrustrationPhrase, p)
        low == LowerSeq(frustration_topic)
    IN  IF FirstTopic(low) # 0 THEN topic_map[FirstTopic(low)][2]
        ELSE IF \E i \in 1..Len(product_words) : HasWord(low, product_words[i])
        THEN Sp(<<"Need", "an", "improved">>) \o <<" ">> \o frustration_topic \o <<" ">>
             \o Sentence(<<"with", "better", "reliability", "and", "user", "experience">>)
        ELSE Sp(<<"Need", "a", "management", "tool", "for">>) \o <<" ">>
             \o frustration_topic \o <<" ">>
             \o Sentence(<<"that", "improves", "efficiency", "and", "reduces",
                           "frustration">>)

\* lines 1483-1488
PostingErrors(p) ==
    HasPhrase(p, Sp(<<"enables", "users", "to", "be", "posted", "and",
                  "votes", "cannot", "be", "cast">>))
PostingErrorsReplacement ==
    Sentence(<<"Need", "a", "social", "media", "management", "tool", "that",
    "prevents", "posting/voting", "errors", "and", "improves", "content",
    "moderation">>)
Rotations(p) == HasPhrase(p, Sp(<<"reduce", "time", "spent">>)) /\ HasWord(p, "rotations")
RotationsReplacement ==
    Sentence(<<"Need", "a", "medical", "rotation", "scheduling", "system",
    "that", "optimizes", "assignments", "based", "on", "preferences", "and",
    "educational", "value">>)

\* lines 1491-1495: "need a way to determine when to replace X"
ReplacePhrase == LitPhrase(Sp(<<"determine", "when", "to", "replace">>) \o <<" ">>)
ReplaceApplies(p) ==
    /\ StartsWith(LowerSeq(p),
                  Sp(<<"need", "a", "way", "to", "determine", "when", "to", "replace">>))
    /\ GroupFound(ReplacePhrase, p)
ReplaceRewrite(p) ==
    Sp(<<"Need", "a", "diagnostic", "tool", "that", "predicts", "when">>) \o <<" ">>
    \o GroupText(ReplacePhrase, p) \o <<" ">>
    \o Sentence(<<"should", "be", "replaced">>)

\* lines 1497-1501: r"fix ([^\.]+) when it stops working".  The group is
\* greedy and gives back: it ends at the last place, before the next ".",
\* that is followed by " when it stops working"
StopsWorking == LitPhrase(<<" ">> \o Sp(<<"when", "it", "stops", "working">>))
FixGroupEnds(s, i) ==
    {k \in (i + 2)..Len(s) :
        /\ \A j \in (i + 2)..k : s[j] # "."
        /\ MatchEnd(StopsWorking, s, k + 1) # 0}
FixStarts(s) ==
    {i \in 1..Len(s) : MatchEnd(LitPhrase(<<"fix", " ">>), s, i) # 0 /\ FixGroupEnds(s, i) # {}}
FixApplies(p) ==
    /\ StartsWith(LowerSeq(p), Sp(<<"need", "a", "way", "to", "fix">>))
    /\ FixStarts(p) # {}
FixRewrite(p) ==
    LET i == CHOOSE i \in FixStarts(p) : \A j \in FixStarts(p) : i <= j
        k == CHOOSE k \in FixGroupEnds(p, i) : \A j \in FixGroupEnds(p, i) : k >= j
    IN  Sp(<<"Need", "a", "troubleshooting", "assistant", "for">>) \o <<" ">>
        \o Strip(SubSeq(p, i + 2, k)) \o <<" ">> \o <<"problems", ".">>


\* line 1504: r"Need a (way|tool|platform) to (some|in a|to the|the best to|
\* new column,|achieve this if)"; the last word of an alternative matches
\* as a prefix of a longer word
PrefixPairs == { <<"something", "some">>, <<"an", "a">>, <<"another", "a">>,
                 <<"them", "the">>, <<"these", "the">> }
HasPrefix(w, pre) == w = pre \/ <<w, pre>> \in PrefixPairs
MalformedTails ==
    { <<"some">>, Sp(<<"in", "a">>), Sp(<<"to", "the">>), Sp(<<"the", "best", "to">>),
      Sp(<<"new", "column,">>), Sp(<<"achieve", "this", "if">>) }
TailAt(s, i, tail) ==
    LET n == Len(tail)
    IN  /\ i + n - 1 <= Len(s)
        /\ \A j \in 1..(n - 1) : Lower(s[i + j - 1]) = tail[j]
        /\ HasPrefix(Lower(s[i + n - 1]), tail[n])
Malformed(p) ==
    \E i \in 1..Len(p) : \E kind \in {"way", "tool", "platform"} :
        LET e == MatchEnd(LitPhrase(Sp(<<"need", "a", kind, "to">>) \o <<" ">>), p, i)
        IN  e # 0 /\ \E tail \in MalformedTails : TailAt(p, e, tail)

MalformedRewrite(p) ==
    LET low == LowerSeq(p)
    IN  IF HasPhrase(low, Sp(<<"host", "resolution">>)) \/ HasPhrase(low, Sp(<<"command", "line">>))
        THEN Sentence(<<"Need", "a", "tool", "to", "simplify", "host",
             "resolution", "management", "via", "command", "line">>)
        ELSE IF HasWord(low, "column") /\ HasWord(low, "excel")
        THEN Sentence(<<"Need", "an", "Excel", "add-in", "for", "automating",
             "value", "mapping", "between", "columns">>)
        ELSE IF HasWord(low, "windows") \/ HasWord(low, "enterprise")
        THEN Sentence(<<"Need", "a", "deployment", "tool", "to", "streamline",
             "Windows", "installation", "and", "activation">>)
        ELSE IF HasWord(low, "file") /\ HasWord(low, "overwrite")
        THEN Sentence(<<"Need", "a", "file", "management", "tool", "with",
             "smart", "overwrite", "rules", "based", "on", "date", "and",
             "content">>)
        ELSE IF HasWord(low, "battery")
        THEN Sentence(<<"Need", "a", "battery", "health", "monitor", "and",
             "replacement", "recommendation", "tool">>)
        ELSE IF HasWord(low, "car") \/ HasWord(low, "vehicle")
        THEN Sentence(<<"Need", "a", "vehicle", "recommendation", "platform",
             "based", "on", "user", "needs", "and", "budget">>)
        ELSE Sentence(<<"Need", "a", "tool", "to", "solve", "this", "specific",
             "problem">>)

\* lines 1522-1526: brace groups are removed
StripBraces(p) ==
    IF HasWord(p, "{") \/ HasWord(p, "}")
    THEN LET q == Strip(ReSub(<<Exact("{"), [k |-> "not}*"], Exact("}")>>, <<>>, p))
         IN  IF q # <<>> /\ q[Len(q)] = "." THEN q ELSE Append(q, ".")
    ELSE p

\* lines 1529-1533: statements of fewer than five words
SuffixPairs == { <<"phone", "one">>, <<"someone", "one">> }
HasOneQuestion(low) ==
    \E i \in 1..(Len(low) - 1) :
        (low[i] = "one" \/ <<low[i], "one">> \in SuffixPairs) /\ low[i + 1] = "?"
TooShort(p) == WordCount(p) < 5

TooShortReplacement(p) ==
    IF HasOneQuestion(LowerSeq(p))
    THEN Sentence(<<"Need", "a", "decision", "support", "tool", "to",
         "evaluate", "when", "new", "devices", "are", "necessary">>)
    ELSE Sentence(<<"Need", "a", "tool", "to", "solve", "this", "specific",
         "problem">>)

\* a plausible slip: the closing format check is left out
DoubleCheckSkipped(p) == p
\* lines 1536-1538: strip, and close with "." when no terminal mark ends it
DoubleCheckFormat(p) == EnsureTerminal(Strip(p))

postprocess_problem_statement(problem) ==
    IF problem = NoneStmt
    THEN Sentence(<<"Need", "a", "tool", "to", "solve", "a", "specific", "problem">>)
    ELSE LET p == RemoveCommonIssues(ToolFocus(EnsureTerminal(Strip(problem))))
         IN  IF p \in GenericStatements THEN GenericReplacement
             ELSE IF FindBestApplies(p) THEN FindBestRewrite(p)
             ELSE IF FrustrationApplies(p) THEN FrustrationRewrite(p)
             ELSE IF PostingErrors(p) THEN PostingErrorsReplacement
             ELSE IF Rotations(p) THEN RotationsReplacement
             ELSE IF ReplaceApplies(p) THEN ReplaceRewrite(p)
             ELSE IF FixApplies(p) THEN FixRewrite(p)
             ELSE IF Malformed(p) THEN MalformedRewrite(p)
             ELSE IF TooShort(StripBraces(p)) THEN TooShortReplacement(StripBraces(p))
             ELSE DoubleCheckFormat(StripBraces(p))


----------------------------------------------------------------------------
(* to_problem_statement.  What its regular expressions find in a text is   *)
(* the text's profile: for each of the eleven extraction rules, in the     *)
(* order of the code, whether the pattern matches and the stripped capture *)
(* of its leftmost match; the (verb, object) pair extract_need_and_object  *)
(* returns; whether the context is longer than 10 characters and holds an  *)
(* activity word; and the text the generation model writes for it.         *)

\* the number of characters of the words that occur in captures
WordLen(w) ==
    CASE w = " " -> 1
      [] w \in {"it", "pc", "to"} -> 2
      [] w \in {"app", "the", "new"} -> 3
      [] w \in {"sync", "find", "best", "this", "have", "tool"} -> 4
      [] w \in {"track", "tires", "phone", "files", "solve", "block", "adult"} -> 5
      [] w \in {"manage"} -> 6
      [] w \in {"monitor", "servers", "tracker", "problem", "content"} -> 7
      [] w \in {"invoices", "calendar"} -> 8
RECURSIVE CharLen(_)
CharLen(s) == IF s = <<>> THEN 0 ELSE WordLen(Head(s)) + CharLen(Tail(s))

NoMatch == [hit |-> FALSE, cap |-> <<>>, cap2 |-> <<>>]
Cap(c) == [hit |-> TRUE, cap |-> c, cap2 |-> <<>>]
Cap2(c, d) == [hit |-> TRUE, cap |-> c, cap2 |-> d]

\* the rules in the order of the code: 1 tool, 2 automate, 3 tired of
\* manually, 4 waste time, 5 no way to, 6 integrate, 7 hard to,
\* 8 frustrated with, 9 problem with, 10 keeps breaking, 11 need new
RuleCount == 11
ToolRule == 1
IntegrateRule == 6
FrustrationRule == 8
NeedNewRule == 11
NoMatches == [i \in 1..RuleCount |-> NoMatch]

\* "if action and len(action) > 3" and its like: the capture of rule i is
\* long enough
MinLength(i) == IF i \in {IntegrateRule, NeedNewRule} THEN 2 ELSE 3
Qualifies(pr, i) ==
    /\ pr.rules[i].hit
    /\ CharLen(pr.rules[i].cap) > MinLength(i)
    /\ i = IntegrateRule => CharLen(pr.rules[i].cap2) > MinLength(i)

\* re.search(r"\b(app|tool|...)\b", capture, re.IGNORECASE)
HasWholeWord(s, ws) == \E i \in 1..Len(s) : Lower(s[i]) \in ws

Between(a, x, b) == Sp(a) \o <<" ">> \o x \o (IF b = <<>> THEN <<>> ELSE <<" ">> \o Sp(b)) \o <<".">>

Nothing == <<"<nothing>">>

\* what rule i returns once its capture is long enough; Nothing when the
\* rule has no return for it (the need-new rule, lines 1042-1055)
RuleReturn(pr, i) ==
    LET x == pr.rules[i].cap
    IN  CASE i = 1 -> Between(<<"Need", "a", "tool", "to">>, x, <<>>)
          [] i = 2 -> Between(<<"Need", "a", "way", "to", "automate">>, x, <<>>)
          [] i = 3 -> Between(<<"Need", "a", "solution", "to", "automate">>, x, <<>>)
          [] i = 4 -> Between(<<"Need", "a", "tool", "to", "reduce", "time", "spent">>, x, <<>>)
          [] i = 5 -> Between(<<"Need", "a", "solution", "that", "enables", "users", "to">>,
                              x, <<>>)
          [] i = 6 -> Between(<<"Need", "a", "tool", "to", "integrate">>,
                              x \o <<" ", "with", " ">> \o pr.rules[i].cap2, <<>>)
          [] i = 7 -> Between(<<"Need", "a", "tool", "that", "makes", "it", "easy", "to">>,
                              x, <<>>)
          [] i = 8 ->
               IF HasWholeWord(x, {"app", "tool", "software", "website", "platform", "system"})
               THEN Between(<<"Need", "a", "better", "alternative", "to">>, x, <<>>)
               ELSE Between(<<"Need", "a", "solution", "to", "address", "frustrations",
                              "with">>, x, <<>>)
          [] i = 9 -> Between(<<"Need", "a", "tool", "to", "solve", "problems", "when">>,
                              x, <<>>)
          [] i = 10 -> Between(<<"Need", "a", "more", "reliable", "solution", "for">>, x, <<>>)
          [] i = 11 ->
               IF HasWholeWord(x, {"app", "tool", "software", "platform"})
               THEN Between(<<"Need", "a", "better">>, x, <<"with", "improved", "features">>)
               ELSE IF HasAnyWord(LowerSeq(x), {"tracker", "manager", "organizer", "planner",
                                                "system", "software", "solution"})
               THEN Between(<<"Need", "a", "tool", "to", "replace", "or", "improve", "upon",
                              "existing">>, x, <<>>)
               ELSE IF pr.activity
               THEN Between(<<"Need", "a", "tool", "for", "better">>, x, <<"management">>)
               ELSE Nothing

\* the rules from rule i on: the first one that returns
RECURSIVE RuleCascade(_, _)
RuleCascade(pr, i) ==
    IF i > RuleCount THEN [by |-> "none", rule |-> 0, stmt |-> Nothing]
    ELSE IF Qualifies(pr, i) /\ RuleReturn(pr, i) # Nothing
         THEN [by |-> "rule", rule |-> i, stmt |-> RuleReturn(pr, i)]
         ELSE RuleCascade(pr, i + 1)

\* lines 1058-1072: the generic need/object extraction
GenericApplies(pr) ==
    pr.long /\ CharLen(<<pr.verb>>) > 2 /\ CharLen(pr.obj) > 2
GenericStatement(pr) ==
    EnsureTerminal(
        IF pr.verb \in ACTIONABLE_VERBS
        THEN Sp(<<"Need", "a", "tool", "to", "help", pr.verb>>) \o <<" ">> \o pr.obj
        ELSE Sp(<<"Need", "a", "solution", "for">>) \o <<" ">> \o pr.obj)

\* str.rstrip(".")
RECURSIVE RStripDots(_)
RStripDots(s) ==
    IF s # <<>> /\ s[Len(s)] = "." THEN RStripDots(SubSeq(s, 1, Len(s) - 1)) ELSE s

\* " ".join(out.split()[:n])
RECURSIVE FirstWords(_, _)
FirstWords(s, n) ==
    LET t == LStrip(s)
        ends == {i \in 1..Len(t) : i = Len(t) \/ t[i + 1] = " "}
        e == CHOOSE i \in ends : \A j \in ends : i <= j
    IN  IF n = 0 \/ t = <<>> THEN <<>>
        ELSE LET more == FirstWords(SubSeq(t, e + 1, Len(t)), n - 1)
             IN  SubSeq(t, 1, e) \o (IF more = <<>> THEN <<>> ELSE <<" ">> \o more)

MaxWords == 15
product_starters ==
    { Sp(<<"need", "a", "tool", "to">>), Sp(<<"need", "a", "platform", "for">>),
      Sp(<<"need", "a", "solution", "to">>), Sp(<<"need", "an", "app", "to">>),
      Sp(<<"need", "a", "system", "for">>) }
HedgeWords == {"basically", "essentially", "actually", "simply", "just"}
RemoveHedges(s) ==
    LET s1 == ReSub(LitPhrase(Sp(<<"in", "order">>)), <<>>, s)
    IN  SelectSeq(s1, LAMBDA w : Lower(w) \notin HedgeWords)

\* lines 1090-1120: what is made of the text the generation model wrote
GeneratedStatement(generated) ==
    LET out == Strip(generated)
        low == LowerSeq(out)
    IN  IF \/ low = <<"skip">>
           \/ HasWord(low, "information")
           \/ HasWord(low, "recommend")
        THEN NoneStmt
        ELSE LET o1 == IF out # <<>> /\ Lower(out[1]) \in {"problem:", "statement:", "task:"}
                       THEN LStrip(Tail(out)) ELSE out
                 o2 == IF \E st \in product_starters : StartsWith(LowerSeq(o1), st)
                       THEN o1
                       ELSE Sp(<<"Need", "a", "tool", "to">>) \o <<" ">>
                            \o RStripDots(LStrip(o1))
                 o3 == RStripDots(Strip(o2))
                 o4 == IF WordCount(o3) > MaxWords
                       THEN (IF WordCount(RemoveHedges(o3)) > MaxWords
                             THEN FirstWords(RemoveHedges(o3), MaxWords)
                             ELSE RemoveHedges(o3))
                       ELSE o3
             IN  IF HasPhrase(LowerSeq(o4), Sp(<<"find", "the", "best">>))
                 THEN NoneStmt
                 ELSE Append(o4, ".")

\* to_problem_statement on a profile: every result it can have, with the
\* stage that returned it.  The generation model is a collaborator: it
\* writes its text or raises, and the exception is caught and becomes None.
Normalize(pr) ==
    LET r == RuleCascade(pr, 1)
    IN  IF r.by = "rule" THEN {r}
        ELSE IF GenericApplies(pr)
        THEN {[by |-> "generic", rule |-> 0, stmt |-> GenericStatement(pr)]}
        ELSE { [by |-> "model", rule |-> 0, stmt |-> GeneratedStatement(pr.generated)],
               [by |-> "model", rule |-> 0, stmt |-> NoneStmt] }

Profile(rules, verb, obj, long, activity, generated) ==
    [rules |-> rules, verb |-> verb, obj |-> obj, long |-> long,
     activity |-> activity, generated |-> generated]

----------------------------------------------------------------------------
(* The finite universe of texts.  A snippet or page body is a named text;  *)
(* the classifiers and the normalizer are tables over the universe.        *)

S1         == Sentence(<<"Need", "a", "tool", "to", "track", "invoices">>)
S2         == Sentence(<<"Need", "a", "way", "to", "automate", "calendar", "sync">>)
S3         == Sentence(<<"Need", "a", "tool", "to", "manage", "invoices">>)
S4         == Sentence(<<"Need", "a", "tool", "to", "monitor", "servers">>)
\* what the normalizer builds from the fallback of extract_need_and_object
Placeholder == Sentence(<<"Need", "a", "solution", "for", "this", "problem">>)
S5         == Sentence(<<"Need", "a", "tool", "to", "block", "adult", "content">>)
Generic    == Sentence(<<"Need", "a", "way", "to", "solve", "this", "problem">>)
EchoStmt   == Sentence(<<"Need", "a", "way", "to", "need", "a", "new", "phone">>)
FindBest   == Sentence(<<"Need", "a", "tool", "to", "find", "the", "best", "tires">>)

TxtInvoices == "need a tool to track invoices"
TxtSolved   == "need a tool to track invoices. what worked for me was invoicely app"
TxtCalendar == "automate calendar sync"
TxtManage   == "looking for an app to manage invoices"
TxtServers  == "server monitor app: want it"
TxtSync     == "sync app: want it"
TxtTires    == "need a tool to find the best tires"
TxtVague    == "vague complaint"
TxtNsfw     == "nsfw post"
TxtWhatIs   == "what is an invoice"
TxtThoughts == "thoughts on invoice apps"
\* a complaint in which no extraction rule and no need pattern matches
TxtSlow     == "invoice tracking tool is slow and the app crashes daily"
\* a page body with a term of NSFW_TERMS in a request for a tool
TxtParental == "sync app. we need a tool to block adult content"
TextUniverse ==
    { TxtInvoices, TxtSolved, TxtCalendar, TxtManage, TxtServers, TxtSync, TxtTires,
      TxtVague, TxtNsfw, TxtWhatIs, TxtThoughts, TxtParental, TxtSlow }

\* What the classifiers read off a text: which of the rejecting filters
\* fire, which signal lists have a term in it, and how many entries of each
\* scored list occur in it.
Feat(nsfw, info_only, resolved, discussion, complaint, intent, opportunity, verbs, terms, info, patterns, bonus, penalty) ==
    [nsfw |-> nsfw, info_only |-> info_only, resolved |-> resolved,
     discussion |-> discussion, complaint |-> complaint, intent |-> intent,
     opportunity |-> opportunity, verbs |-> verbs, terms |-> terms, info |-> info,
     patterns |-> patterns, bonus |-> bonus, penalty |-> penalty]

Signals(t) ==
    CASE t = TxtInvoices ->
            Feat(FALSE, FALSE, FALSE, FALSE, FALSE, TRUE, TRUE, 1, 1, 0, 2, TRUE, FALSE)
      [] t = TxtSolved ->
            Feat(FALSE, FALSE, FALSE, FALSE, FALSE, TRUE, TRUE, 1, 2, 0, 2, TRUE, FALSE)
      [] t = TxtCalendar ->
            Feat(FALSE, FALSE, FALSE, FALSE, FALSE, FALSE, TRUE, 2, 0, 0, 1, FALSE, FALSE)
      [] t = TxtManage ->
            Feat(FALSE, FALSE, FALSE, FALSE, FALSE, TRUE, TRUE, 1, 1, 0, 0, TRUE, FALSE)
      [] t = TxtServers ->
            Feat(FALSE, FALSE, FALSE, FALSE, FALSE, FALSE, TRUE, 1, 1, 0, 0, FALSE, FALSE)
      [] t = TxtSync ->
            Feat(FALSE, FALSE, FALSE, FALSE, FALSE, FALSE, TRUE, 1, 1, 0, 0, FALSE, FALSE)
      [] t = TxtTires ->
            Feat(FALSE, FALSE, FALSE, FALSE, FALSE, TRUE, TRUE, 0, 1, 1, 1, TRUE, TRUE)
      [] t = TxtNsfw ->
            Feat(TRUE, FALSE, FALSE, FALSE, FALSE, FALSE, FALSE, 0, 0, 0, 0, FALSE, FALSE)
      [] t = TxtParental ->
            Feat(TRUE, FALSE, FALSE, FALSE, FALSE, TRUE, TRUE, 1, 2, 0, 1, TRUE, FALSE)
      [] t = TxtSlow ->
            Feat(FALSE, FALSE, FALSE, FALSE, TRUE, FALSE, TRUE, 1, 3, 0, 0, FALSE, FALSE)
      [] t = TxtWhatIs ->
            Feat(FALSE, TRUE, FALSE, FALSE, FALSE, FALSE, FALSE, 0, 0, 1, 0, FALSE, FALSE)
      [] t = TxtThoughts ->
            Feat(FALSE, FALSE, FALSE, TRUE, FALSE, FALSE, TRUE, 0, 1, 0, 0, FALSE, FALSE)
      \* TxtVague and every other text: no list has an entry in it
      [] OTHER ->
            Feat(FALSE, FALSE, FALSE, FALSE, FALSE, FALSE, FALSE, 0, 0, 0, 0, FALSE, FALSE)

\* PRODUCT_SCORE_THRESHOLD = 0.3, in hundredths
PRODUCT_SCORE_THRESHOLD == 30

\* calculate_product_potential_score before the clamp, in hundredths.  The
\* script adds the same terms in binary floating point; the model adds
\* them exactly.
RawScore(f) ==
    20 + Min(50, f.verbs * 15)
       + Min(40, f.terms * 15)
       - Min(30, f.info * 8)
       + Min(50, f.patterns * 12)
       + (IF f.bonus THEN 30 ELSE 0)
       - (IF f.penalty THEN 20 ELSE 0)

\* a plausible slip: the sum is returned as it is
Unclamped(x) == x
\* max(0.0, min(1.0, score))
ClampUnit(x) == Max(0, Min(100, x))

calculate_product_potential_score(f) == ClampUnit(RawScore(f))

\* a plausible slip: the info-only filter is consulted before the NSFW one
RejectReasonInfoFirst(f) ==
    IF f.info_only THEN "info-only"
    ELSE IF f.nsfw THEN "contains NSFW content"
    ELSE IF f.resolved THEN "already resolved"
    ELSE IF f.discussion THEN "discussion or opinion"
    ELSE ""
\* the four rejecting filters of is_pain_point, in order ("" when none fires)
RejectReason(f) ==
    IF f.nsfw THEN "contains NSFW content"
    ELSE IF f.info_only THEN "info-only"
    ELSE IF f.resolved THEN "already resolved"
    ELSE IF f.discussion THEN "discussion or opinion"
    ELSE ""

\* contains_actionable_verb: some verb of ACTIONABLE_VERBS occurs
contains_actionable_verb(f) == f.verbs > 0

\* is_pain_point: (verdict, reason); the score is left out of the reason
is_pain_point(f) ==
    IF RejectReason(f) # "" THEN [ok |-> FALSE, reason |-> RejectReason(f)]
    ELSE IF /\ (f.complaint \/ f.intent \/ contains_actionable_verb(f) \/ f.opportunity)
            /\ calculate_product_potential_score(f) >= PRODUCT_SCORE_THRESHOLD
         THEN [ok |-> TRUE, reason |-> "matches product criteria"]
         ELSE [ok |-> FALSE, reason |-> "no signal or low product potential"]

\* contains_nsfw_content(title + snippet)
contains_nsfw_content(t) == Signals(t).nsfw
is_info_only(t) == Signals(t).info_only
is_discussion_or_opinion(t) == Signals(t).discussion
\* classify_intent with USE_ZERO_SHOT = False: the heuristic branch
classify_intent(t) ==
    IF is_info_only(t) THEN "information request"
    ELSE IF is_discussion_or_opinion(t) THEN "discussion or opinion"
    ELSE "product-solvable problem"
\* calculate_product_potential_score(title + content[:300]) >= PRODUCT_SCORE_THRESHOLD
ScoreOk(t) == calculate_product_potential_score(Signals(t)) >= PRODUCT_SCORE_THRESHOLD

\* what the patterns of to_problem_statement find in the texts of the
\* universe, and what the generation model writes for those that reach it
TextProfile(t) ==
    LET one(i, c) == [NoMatches EXCEPT ![i] = Cap(c)]
    IN  IF t \in {TxtInvoices, TxtSolved}
        THEN Profile(one(ToolRule, Sp(<<"track", "invoices">>)), "tool",
                     Sp(<<"to", "track", "invoices">>), TRUE, TRUE, <<>>)
        ELSE IF t = TxtCalendar
        THEN Profile(one(2, Sp(<<"calendar", "sync">>)), "solve",
                     Sp(<<"this", "problem">>), TRUE, TRUE, <<>>)
        ELSE IF t = TxtManage
        THEN Profile(one(ToolRule, Sp(<<"manage", "invoices">>)), "app",
                     Sp(<<"to", "manage", "invoices">>), TRUE, TRUE, <<>>)
        ELSE IF t = TxtTires
        THEN Profile(one(ToolRule, Sp(<<"find", "the", "best", "tires">>)), "tool",
                     Sp(<<"to", "find", "the", "best", "tires">>), TRUE, FALSE, <<>>)
        ELSE IF t = TxtParental
        THEN Profile(one(ToolRule, Sp(<<"block", "adult", "content">>)), "tool",
                     Sp(<<"to", "block", "adult", "content">>), TRUE, TRUE, <<>>)
        ELSE IF t = TxtServers
        THEN Profile(NoMatches, "have", <<"it">>, TRUE, FALSE, Sp(<<"monitor", "servers">>))
        ELSE IF t = TxtSync
        THEN Profile(NoMatches, "have", <<"it">>, TRUE, TRUE, <<"SKIP">>)
        ELSE IF t = TxtSlow
        THEN Profile(NoMatches, "solve", Sp(<<"this", "problem">>), TRUE, TRUE, <<>>)
        ELSE Profile(NoMatches, "solve", Sp(<<"this", "problem">>), TRUE, FALSE, <<>>)

\* to_problem_statement(title, content): the set of values it can return,
\* worked out once for every text of the universe
NormalizedText == [t \in TextUniverse |-> {r.stmt : r \in Normalize(TextProfile(t))}]
to_problem_statement(t) == NormalizedText[t]

\* postprocess_problem_statement on the statements the normalizer returns,
\* worked out once
PostprocessedStatement ==
    [p \in (UNION {NormalizedText[t] : t \in TextUniverse}) \ {NoneStmt}
       |-> postprocess_problem_statement(p)]

\* extract_solution(title + content, "", src.url): (solution_text, url); the
\* texts of the universe embed no url, so the url is the source's
SolutionText(t) ==
    IF t = TxtSolved THEN "invoicely app" ELSE ""
extract_solution(t, source_url) == <<SolutionText(t), source_url>>

\* check_solution_sentiment: (has_negative_reviews, review_url); it runs a
\* search and fetches, and returns (False, "") on any exception
ReviewUrl == <<"r">>
NoUrl == <<>>
Sentiments == {<<FALSE, NoUrl>>, <<TRUE, ReviewUrl>>}

\* any(term.lower() in t for term in NSFW_TERMS), for a statement
NSFW_TERMS ==
    { <<"sex">>, <<"porn">>, <<"nude">>, <<"nsfw">>, <<"xxx">>, <<"adult", "content">>,
      <<"sexual">>, <<"masturbate">>, <<"erotic">>, <<"escort">>, <<"dildo">>, <<"viagra">>,
      <<"penis">>, <<"vagina">> }
HasNsfwTerm(p) ==
    \E term \in NSFW_TERMS :
        IF Len(term) = 1 THEN HasWord(LowerSeq(p), term[1])
        ELSE HasPhrase(LowerSeq(p), Sp(term))

\* the drop tests of the main loop on a normalized statement:
\* problem.lower().startswith("need a way to need") and
\* "find the best" in problem.lower()
StartsWithEcho(p) == StartsWith(LowerSeq(p), Sp(<<"need", "a", "way", "to", "need">>))
ContainsFindTheBest(p) == HasPhrase(LowerSeq(p), Sp(<<"find", "the", "best">>))

----------------------------------------------------------------------------
(* embed and util.cos_sim: integer vectors, cosine compared by squares     *)

Embedding(p) ==
    CASE p = S1 -> <<10, 0>>
      [] p = S2 -> <<7, 7>>
      [] p = S3 -> <<9, 4>>
      [] p = S4 -> <<0, 10>>
      [] p = S5 -> <<-10, 1>>
      [] p = Placeholder -> <<-1, -10>>
      [] OTHER -> <<1, -1>>

Dot(a, b) == a[1] * b[1] + a[2] * b[2]
\* cos_sim(a, b) >= SIM_THRESHOLD / 100
CosSimAtLeast(a, b) ==
    /\ Dot(a, b) >= 0
    /\ Dot(a, b) * Dot(a, b) * 10000
          >= SIM_THRESHOLD * SIM_THRESHOLD * Dot(a, a) * Dot(b, b)
\* cos_sim(x, a) > cos_sim(x, b), for vectors at an acute angle to x
CosSimGreater(x, a, b) ==
    Dot(x, a) * Dot(x, a) * Dot(b, b) > Dot(x, b) * Dot(x, b) * Dot(a, a)

\* a plausible slip: best-fit, the cluster with the highest similarity
BestFit(cls, emb) ==
    LET ok == {i \in 1..Len(cls) : CosSimAtLeast(emb, cls[i].embedding)}
    IN  IF ok = {} THEN 0
        ELSE CHOOSE i \in ok :
               \A j \in ok : j = i \/ ~CosSimGreater(emb, cls[j].embedding, cls[i].embedding)
\* for cl in clusters: if sim >= SIM_THRESHOLD: matched = cl; break
\* (0 stands for matched = None)
FirstFit(cls, emb) ==
    LET ok == {i \in 1..Len(cls) : CosSimAtLeast(emb, cls[i].embedding)}
    IN  IF ok = {} THEN 0 ELSE CHOOSE i \in ok : \A j \in ok : i <= j

----------------------------------------------------------------------------
(* Collaborators: the web.  ddg_search returns one of a few result lists   *)
(* (the empty list also stands for a search that raised at once);          *)
(* fetch_page_content returns the page body or "" on failure.              *)

Src(t, u, s) == [title |-> t, url |-> u, snippet |-> s]

\* what the provider can rank for a query; ddg_search cuts it to max_results
ResultsMixed ==
    << Src(<<"a">>, <<"p">>, TxtInvoices),
       Src(<<"d">>, <<"n">>, TxtNsfw),
       Src(<<"b">>, <<"q">>, TxtCalendar),
       Src(<<"d">>, <<"i">>, TxtWhatIs),
       Src(<<"c">>, <<"r">>, TxtManage),
       Src(<<"d">>, <<"l">>, TxtSync),
       Src(<<"A">>, <<"p", "#", "x">>, TxtInvoices),
       Src(<<"d">>, <<"k">>, TxtTires),
       Src(<<"e">>, <<"s">>, TxtServers) >>
ResultsMany ==
    << Src(<<"a">>, <<"p">>, TxtInvoices),
       Src(<<"a">>, <<"p", "1">>, TxtInvoices),
       Src(<<"a">>, <<"p", "2">>, TxtInvoices),
       Src(<<"a">>, <<"p", "3">>, TxtInvoices),
       Src(<<"a">>, <<"p", "4">>, TxtInvoices),
       Src(<<"a">>, <<"p", "5">>, TxtInvoices),
       Src(<<"B">>, <<"p", "6">>, TxtSolved),
       Src(<<"b">>, <<"p", "7">>, TxtInvoices) >>
ResultsReverse ==
    << Src(<<"c">>, <<"r">>, TxtManage),
       Src(<<"b">>, <<"q">>, TxtCalendar),
       Src(<<"f">>, <<"m">>, TxtSync),
       Src(<<"g">>, <<"t">>, TxtSlow) >>
Ranked == {<<>>, ResultsMixed, ResultsMany, ResultsReverse}

\* ddg_search(query, max_results): every list it can return; an exception
\* inside it is caught and leaves the results gathered so far
ddg_search(max_results) == {Take(r, max_results) : r \in Ranked}
MAX_RESULTS_PER_QUERY == 20
ExpansionSearchLimit == 8

\* the body fetch_page_content extracts from the page at url ("" when the
\* request fails, which can also happen for any url)
PageOf(url) ==
    LET u == BeforeHash(url)
    IN  CASE u = <<"p", "6">> -> TxtSolved
          [] u # <<>> /\ u[1] = "p" -> TxtInvoices
          [] u = <<"q">> -> TxtCalendar
          [] u = <<"r">> -> TxtManage
          [] u = <<"s">> -> TxtServers
          [] u = <<"l">> -> TxtVague
          [] u = <<"m">> -> TxtParental
          [] u = <<"t">> -> TxtSlow
          [] OTHER -> ""
fetch_page_content(url) == {"", PageOf(url)}

\* fetch_for_source: content = fetch_page_content(url); if content: snippet = content
FetchedSource(src, content) ==
    IF content # "" THEN [src EXCEPT !.snippet = content] ELSE src

\* fetch_contents_for_sources(sources), as seen by its caller: every list
\* it can return (the worker pool itself is modelled below)
fetch_contents_for_sources(sources) ==
    { [i \in 1..Len(sources) |->
          FetchedSource(sources[i], IF up[i] THEN PageOf(sources[i].url) ELSE "")]
      : up \in [1..Len(sources) -> BOOLEAN] }

----------------------------------------------------------------------------
(* search_and_cluster                                                      *)

SEED_CONFIGS ==
    { [seeds |-> <<Sp(<<"frustrated", "with">>)>>, hints |-> <<>>],
      [seeds |-> << <<"automate">> >>,
       hints |-> <<"site:reddit.com", "site:superuser.com">>],
      [seeds |-> << <<"automate">>, <<"automate">> >>, hints |-> <<"site:reddit.com">>] }

\* a query string: its text, whether it is wrapped in double quotes, and
\* the site hint appended to it
Query(text, quoted, hint) == [text |-> text, quoted |-> quoted, hint |-> hint]

RECURSIVE InitialQueries(_, _)
InitialQueries(seeds, hints) ==
    IF seeds = <<>> THEN <<>>
    ELSE (IF hints # <<>>
          THEN [i \in 1..Len(hints) |-> Query(Head(seeds), FALSE, hints[i])]
          ELSE << Query(Head(seeds), FALSE, "") >>)
         \o InitialQueries(Tail(seeds), hints)

Cluster(problem, emb, src, sol) ==
    [problem |-> problem, embedding |-> emb, sources |-> <<src>>,
     solution |-> sol[1], solution_url |-> sol[2],
     has_negative_reviews |-> FALSE, review_url |-> NoUrl]

WithSentiment(cl, sent) ==
    [cl EXCEPT !.has_negative_reviews = sent[1], !.review_url = sent[2]]

\* the filter chain of the main loop (non-English urls are not in the universe)
MainFilter(src) ==
    /\ ~contains_nsfw_content(src.snippet)
    /\ is_pain_point(Signals(src.snippet)).ok
    /\ classify_intent(src.snippet) = "product-solvable problem"

PipeInit ==
    /\ pc = "loop"
    /\ clusters = <<>>
    /\ visited_queries = {}
    /\ \E cfg \in SEED_CONFIGS : to_search = InitialQueries(cfg.seeds, cfg.hints)
    /\ unmatched_sources = <<>>
    /\ batch = <<>>
    /\ idx = 0
    /\ returned = <<>>
    /\ searchLog = <<>>
    /\ createdLog = <<>>
    /\ appendLog = <<>>
    /\ lastStep = [op |-> "start"]

\* a plausible slip: the query is never recorded
MarkVisitedForgotten(visited, query) == visited
\* visited_queries.add(query)
MarkVisited(visited, query) == visited \cup {query}

\* while to_search and len(clusters) < NUM_PROBLEMS: pop, skip visited,
\* search, filter, fetch
PopQuery ==
    /\ pc = "loop"
    /\ to_search # <<>>
    /\ Len(clusters) < NUM_PROBLEMS
    /\ LET query == Head(to_search)
       IN  /\ to_search' = Tail(to_search)
           /\ IF query \in visited_queries
              THEN /\ lastStep' = [op |-> "skip-visited", query |-> query]
                   /\ UNCHANGED <<pc, visited_queries, batch, searchLog>>
              ELSE /\ visited_queries' = MarkVisited(visited_queries, query)
                   /\ searchLog' = Append(searchLog, query)
                   /\ \E results \in ddg_search(MAX_RESULTS_PER_QUERY) :
                        LET filtered == SelectSeq(results, MainFilter)
                        IN  IF filtered = <<>>
                            THEN /\ batch' = <<>>
                                 /\ pc' = "loop"
                                 /\ lastStep' = [op |-> "searched", query |-> query, n |-> 0]
                            ELSE /\ \E enhanced \in fetch_contents_for_sources(filtered) :
                                      batch' = enhanced
                                 /\ pc' = "batch"
                                 /\ lastStep' = [op |-> "searched", query |-> query,
                                                 n |-> Len(filtered)]
    /\ UNCHANGED <<clusters, unmatched_sources, idx, returned, createdLog, appendLog>>

\* embed(problem): init_models() and encode() are not guarded; the call
\* returns the vector or raises
embed(p) == {[ok |-> TRUE, vec |-> Embedding(p)], [ok |-> FALSE, vec |-> <<>>]}

\* a plausible slip: a solution is looked for whether or not there is one
AlwaysSearch(cl) == TRUE
\* "if not cl.solution" (lines 1259, 1321 and 1372)
NeedsSolution(cl) == cl.solution = ""

\* matched.sources.append(src), then the solution check of lines 1258-1265
AppendAndCheckSolution(cl, src) ==
    LET cl1 == [cl EXCEPT !.sources = Append(@, src)]
        sol == extract_solution(src.snippet, src.url)
    IN  IF NeedsSolution(cl) /\ sol[1] # ""
        THEN { WithSentiment([cl1 EXCEPT !.solution = sol[1], !.solution_url = sol[2]], sent)
               : sent \in Sentiments }
        ELSE {cl1}

\* the cluster built at lines 1276-1280 (and 1351-1355 in the backfill)
NewCluster(problem, emb, src) ==
    LET sol == extract_solution(src.snippet, src.url)
        c == Cluster(problem, emb, src, sol)
    IN  IF sol[1] # "" THEN {WithSentiment(c, sent) : sent \in Sentiments} ELSE {c}

\* a plausible slip: the bare statement is pushed before the quoted one
ExpansionQueriesBareFirst(problem) ==
    << Query(problem, FALSE, ""), Query(problem, TRUE, "") >>
\* the two queries pushed for a new cluster: quoted, then bare
ExpansionQueries(problem) == << Query(problem, TRUE, ""), Query(problem, FALSE, "") >>

\* a plausible slip: the target is taken as reached one cluster early
AtTargetEarly(cls) == Len(cls) >= NUM_PROBLEMS - 1
\* "if len(clusters) >= NUM_PROBLEMS" (line 1270)
AtTarget(cls) == Len(cls) >= NUM_PROBLEMS

\* one iteration of "for src in enhanced_results" (lines 1201-1288)
ProcessCandidate ==
    /\ pc = "batch"
    /\ batch # <<>>
    /\ LET src == Head(batch)
           full_content == src.snippet
           nextpc == IF Tail(batch) = <<>> THEN "loop" ELSE "batch"
       IN  /\ batch' = Tail(batch)
           /\ IF ~ScoreOk(full_content)
              THEN /\ pc' = nextpc
                   /\ lastStep' = [op |-> "dropped", why |-> "score", src |-> src]
                   /\ UNCHANGED <<clusters, to_search, unmatched_sources, createdLog, appendLog>>
              ELSE \E problem \in to_problem_statement(full_content) :
                   IF \/ problem = NoneStmt
                      \/ problem = Generic
                      \/ StartsWithEcho(problem)
                      \/ ContainsFindTheBest(problem)
                   THEN /\ pc' = nextpc
                        /\ lastStep' = [op |-> "dropped", why |-> problem, src |-> src]
                        /\ UNCHANGED <<clusters, to_search, unmatched_sources,
                                       createdLog, appendLog>>
                   ELSE \E e \in embed(problem) :
                        IF ~e.ok
                        THEN /\ pc' = "aborted"
                             /\ lastStep' = [op |-> "embed-raised", src |-> src,
                                             stmt |-> problem]
                             /\ UNCHANGED <<clusters, to_search, unmatched_sources,
                                            createdLog, appendLog>>
                        ELSE LET emb == e.vec
                                 m == FirstFit(clusters, emb)
                             IN  /\ pc' = nextpc
                                 /\ IF m # 0
                                    THEN /\ \E cl \in AppendAndCheckSolution(clusters[m], src) :
                                              clusters' = [clusters EXCEPT ![m] = cl]
                                         /\ appendLog' = [appendLog EXCEPT ![m] = Append(@, src)]
                                         /\ lastStep' = [op |-> "matched", src |-> src,
                                                         emb |-> emb, cl |-> m,
                                                         stmt |-> problem]
                                         /\ UNCHANGED <<to_search, unmatched_sources, createdLog>>
                                    ELSE IF AtTarget(clusters)
                                    THEN /\ unmatched_sources' =
                                              Append(unmatched_sources, <<src, emb>>)
                                         /\ lastStep' = [op |-> "parked", src |-> src,
                                                         emb |-> emb, stmt |-> problem]
                                         /\ UNCHANGED <<clusters, to_search, createdLog,
                                                        appendLog>>
                                    ELSE /\ \E c \in NewCluster(problem, emb, src) :
                                              clusters' = Append(clusters, c)
                                         /\ to_search' = to_search \o ExpansionQueries(problem)
                                         /\ createdLog' = Append(createdLog, emb)
                                         /\ appendLog' = Append(appendLog, <<src>>)
                                         /\ lastStep' = [op |-> "created", src |-> src,
                                                         emb |-> emb, stmt |-> problem]
                                         /\ UNCHANGED unmatched_sources
    /\ UNCHANGED <<visited_queries, idx, returned, searchLog>>

\* the while condition fails: go on to the expansion pass
ExitLoop ==
    /\ pc = "loop"
    /\ ~(to_search # <<>> /\ Len(clusters) < NUM_PROBLEMS)
    /\ pc' = "expand"
    /\ idx' = 1
    /\ lastStep' = [op |-> "loop-exit"]
    /\ UNCHANGED <<clusters, visited_queries, to_search, unmatched_sources, batch,
                   returned, searchLog, createdLog, appendLog>>

\* the first source of enhanced_extra that carries a solution, 0 if none
RECURSIVE FirstWithSolution(_, _)
FirstWithSolution(srcs, i) ==
    IF i > Len(srcs) THEN 0
    ELSE IF SolutionText(srcs[i].snippet) # "" THEN i
    ELSE FirstWithSolution(srcs, i + 1)

\* cl.sources.extend(enhanced_extra), then the solution check of lines 1320-1329
ExtendAndCheckSolution(cl, enhanced) ==
    LET cl1 == [cl EXCEPT !.sources = @ \o enhanced]
        k == FirstWithSolution(enhanced, 1)
    IN  IF NeedsSolution(cl) /\ k # 0
        THEN LET sol == extract_solution(enhanced[k].snippet, enhanced[k].url)
             IN  { WithSentiment([cl1 EXCEPT !.solution = sol[1], !.solution_url = sol[2]], sent)
                   : sent \in Sentiments }
        ELSE {cl1}

\* one iteration of the expansion pass "for cl in clusters" (lines 1293-1329)
ExpandCluster ==
    /\ pc = "expand"
    /\ idx <= Len(clusters)
    /\ idx' = idx + 1
    /\ LET cl == clusters[idx]
           Keep(src) ==
               /\ ~contains_nsfw_content(src.snippet)
               /\ is_pain_point(Signals(src.snippet)).ok
               /\ ~\E j \in 1..Len(cl.sources) :
                      BeforeHash(src.url) = BeforeHash(cl.sources[j].url)
       IN  IF Len(cl.sources) >= EXPANSION_RESULTS_PER_PROBLEM
           THEN /\ lastStep' = [op |-> "expand-skip", cl |-> idx]
                /\ UNCHANGED <<clusters, appendLog>>
           ELSE \E extra \in ddg_search(ExpansionSearchLimit) :
                LET filtered_extra == SelectSeq(extra, Keep)
                IN  IF filtered_extra = <<>>
                    THEN /\ lastStep' = [op |-> "expand-none", cl |-> idx]
                         /\ UNCHANGED <<clusters, appendLog>>
                    ELSE \E enhanced \in fetch_contents_for_sources(filtered_extra) :
                         /\ \E c \in ExtendAndCheckSolution(cl, enhanced) :
                               clusters' = [clusters EXCEPT ![idx] = c]
                         /\ appendLog' = [appendLog EXCEPT ![idx] = @ \o enhanced]
                         /\ lastStep' = [op |-> "expanded", cl |-> idx, added |-> enhanced]
    /\ UNCHANGED <<pc, visited_queries, to_search, unmatched_sources, batch, returned,
                   searchLog, createdLog>>

\* the pass is over: go on to the backfill
ExpandDone ==
    /\ pc = "expand"
    /\ idx > Len(clusters)
    /\ pc' = "backfill"
    /\ lastStep' = [op |-> "expand-done"]
    /\ UNCHANGED <<clusters, visited_queries, to_search, unmatched_sources, batch, idx,
                   returned, searchLog, createdLog, appendLog>>

\* "for i, (other_src, other_emb) in enumerate(unmatched_sources[:])" with
\* unmatched_sources.pop(i) on the live list (lines 1359-1363): copy is the
\* snapshot, live the list being popped, i the 1-based position in copy.
\* pop raises IndexError when the position is past the end of the live list.
RECURSIVE AbsorbLoop(_, _, _, _, _)
AbsorbLoop(copy, i, live, srcs, emb) ==
    IF i > Len(copy) THEN [sources |-> srcs, live |-> live, aborted |-> FALSE]
    ELSE IF CosSimAtLeast(emb, copy[i][2])
         THEN IF i > Len(live)
              THEN [sources |-> Append(srcs, copy[i][1]), live |-> live, aborted |-> TRUE]
              ELSE AbsorbLoop(copy, i + 1, RemoveAt(live, i), Append(srcs, copy[i][1]), emb)
         ELSE AbsorbLoop(copy, i + 1, live, srcs, emb)

\* the "if not matched" branch of the backfill (lines 1344-1363);
\* problem.lower() raises AttributeError when the normalizer returned None
BackfillCreate(st, rest, src, emb, problem) ==
    IF problem = NoneStmt THEN {[st EXCEPT !.unmatched = rest, !.aborted = TRUE]}
    ELSE IF StartsWithEcho(problem) THEN {[st EXCEPT !.unmatched = rest]}
    ELSE { LET ab == AbsorbLoop(rest, 1, rest, c.sources, emb)
           IN  [clusters |-> Append(st.clusters, [c EXCEPT !.sources = ab.sources]),
                log |-> Append(st.log, ab.sources),
                created |-> Append(st.created, emb),
                unmatched |-> ab.live,
                aborted |-> ab.aborted]
           : c \in NewCluster(problem, emb, src) }

\* one iteration of the backfill while loop (lines 1333-1363): every state
\* it can leave
BackfillIter(st) ==
    LET src == st.unmatched[1][1]
        emb == st.unmatched[1][2]
        rest == Tail(st.unmatched)
        m == FirstFit(st.clusters, emb)
    IN  IF m # 0
        THEN {[st EXCEPT !.clusters[m].sources = Append(@, src),
                         !.log[m] = Append(@, src),
                         !.unmatched = rest]}
        ELSE UNION { BackfillCreate(st, rest, src, emb, problem)
                     : problem \in to_problem_statement(src.snippet) }

\* a plausible slip: the loop runs for as long as pairs are parked
BackfillGuardNoTarget(cls, um) == um # <<>>
\* while len(clusters) < NUM_PROBLEMS and unmatched_sources
BackfillGuard(cls, um) == Len(cls) < NUM_PROBLEMS /\ um # <<>>

RECURSIVE BackfillRun(_)
BackfillRun(st) ==
    IF st.aborted \/ ~BackfillGuard(st.clusters, st.unmatched) THEN {st}
    ELSE UNION { BackfillRun(n) : n \in BackfillIter(st) }

\* the backfill pass (lines 1331-1363), run to its end
Backfill ==
    /\ pc = "backfill"
    /\ \E r \in BackfillRun([clusters |-> clusters, unmatched |-> unmatched_sources,
                             log |-> appendLog, created |-> createdLog,
                             aborted |-> FALSE]) :
          /\ clusters' = r.clusters
          /\ unmatched_sources' = r.unmatched
          /\ appendLog' = r.log
          /\ createdLog' = r.created
          /\ pc' = IF r.aborted THEN "aborted" ELSE "finalize"
    /\ idx' = 1
    /\ lastStep' = [op |-> "backfill", iterated |-> BackfillGuard(clusters, unmatched_sources)]
    /\ UNCHANGED <<visited_queries, to_search, batch, returned, searchLog>>

\* search_for_solution(problem): (solution_text, solution_url); all its
\* work is inside try/except, which returns ("", "")
WarnBracket == "invoicely app [WARNING: Has negative reviews]"
SolutionUrl == <<"y">>
search_for_solution(problem) ==
    { <<"", NoUrl>>,
      <<"List of solutions: best invoicing apps", SolutionUrl>>,
      <<WarnBracket, SolutionUrl>> }
\* "[WARNING: Has negative reviews]" in solution_text
HasBracketMarker(text) == text = WarnBracket
\* "[WARNING: Has negative reviews:" in solution_text, and the url the
\* regular expression captures after it
HasColonMarker(text) == FALSE
MarkerUrl(text) == NoUrl
\* solution_text.split("[WARNING:")[0].strip()
BeforeWarning(text) == IF text = WarnBracket THEN "invoicely app" ELSE text

\* lines 1373-1389: the active solution search of finalization
WithFoundSolution(cl, found) ==
    IF found[1] = "" THEN cl
    ELSE LET c1 == [cl EXCEPT !.solution = found[1], !.solution_url = found[2]]
             c2 == IF HasBracketMarker(found[1])
                   THEN [c1 EXCEPT !.has_negative_reviews = TRUE] ELSE c1
         IN  IF HasColonMarker(found[1])
             THEN IF MarkerUrl(found[1]) # NoUrl
                  THEN [c2 EXCEPT !.has_negative_reviews = TRUE,
                                  !.review_url = MarkerUrl(found[1]),
                                  !.solution = BeforeWarning(found[1])]
                  ELSE [c2 EXCEPT !.has_negative_reviews = TRUE]
             ELSE c2

\* a plausible slip: the cap forgets the floor of 6
SourceCapNoFloor == EXPANSION_RESULTS_PER_PROBLEM
\* max(EXPANSION_RESULTS_PER_PROBLEM, 6)
SourceCap == Max(EXPANSION_RESULTS_PER_PROBLEM, MinSourceCap)

\* a plausible slip: the embedding is recomputed from the cleaned statement
DedupedAndReembedded(cl) ==
    [cl EXCEPT !.sources = Take(dedupe_sources(@), SourceCap),
               !.problem = PostprocessedStatement[@],
               !.embedding = Embedding(PostprocessedStatement[cl.problem])]
\* lines 1366-1369: the sources are de-duplicated and trimmed, the problem
\* statement is cleaned up
DedupedAndCleaned(cl) ==
    [cl EXCEPT !.sources = Take(dedupe_sources(@), SourceCap),
               !.problem = PostprocessedStatement[@]]

\* one iteration of the finalization "for cl in clusters" (lines 1366-1389)
FinalizeCluster ==
    /\ pc = "finalize"
    /\ idx <= Len(clusters)
    /\ idx' = idx + 1
    /\ LET cl == clusters[idx]
           c1 == DedupedAndCleaned(cl)
       IN  IF NeedsSolution(c1)
           THEN \E found \in search_for_solution(c1.problem) :
                   clusters' = [clusters EXCEPT ![idx] = WithFoundSolution(c1, found)]
           ELSE clusters' = [clusters EXCEPT ![idx] = c1]
    /\ lastStep' = [op |-> "finalized", cl |-> idx]
    /\ UNCHANGED <<pc, visited_queries, to_search, unmatched_sources, batch, returned,
                   searchLog, createdLog, appendLog>>

\* a plausible slip: the newest clusters first
ReturnNewestFirst(cls) ==
    Take([i \in 1..Len(cls) |-> cls[Len(cls) + 1 - i]], NUM_PROBLEMS)
\* clusters[:NUM_PROBLEMS]
ReturnSlice(cls) == Take(cls, NUM_PROBLEMS)

\* return clusters[:NUM_PROBLEMS]
Return ==
    /\ pc = "finalize"
    /\ idx > Len(clusters)
    /\ returned' = ReturnSlice(clusters)
    /\ pc' = "done"
    /\ lastStep' = [op |-> "returned"]
    /\ UNCHANGED <<clusters, visited_queries, to_search, unmatched_sources, batch, idx,
                   searchLog, createdLog, appendLog>>

PipeNext ==
    \/ PopQuery
    \/ ProcessCandidate
    \/ ExitLoop
    \/ ExpandCluster
    \/ ExpandDone
    \/ Backfill
    \/ FinalizeCluster
    \/ Return

----------------------------------------------------------------------------
(* fetch_contents_for_sources: ThreadPoolExecutor(max_workers).map submits *)
(* one work item per source, in order, to a FIFO queue; each worker thread *)
(* takes the next item, runs fetch_for_source on it and completes the      *)
(* item's future; list(...) collects the futures' results in submission    *)
(* order once all are done.                                                *)

FetchUniverse ==
    { Src(<<"a">>, <<"p">>, TxtInvoices),
      Src(<<"b">>, <<"q">>, "calendar snippet"),
      Src(<<"c">>, <<"r", "#", "x">>, "manage snippet"),
      Src(<<"d">>, <<"n">>, TxtNsfw) }

SeqsUpTo(S, n) == UNION {[1..k -> S] : k \in 0..n}

Workers == 1..MaxWorkers

\* a plausible slip: the closure refers to a variable shared by all work
\* items, so every worker writes the last source
StoreTargetShared(i, n) == n
\* fetch_for_source(source) writes and returns the source it was given
StoreTarget(i, n) == i

FetchInit ==
    /\ fpc = "running"
    /\ fInput \in SeqsUpTo(FetchUniverse, MaxLen)
    /\ fSources = fInput
    /\ fNext = 1
    /\ fWorker = [w \in Workers |-> [state |-> "idle", task |-> 0, content |-> ""]]
    /\ fFuture = [i \in 1..Len(fInput) |-> 0]
    /\ fReturned = <<>>
    /\ fLog = [done |-> <<>>, fetched |-> [i \in 1..Len(fInput) |-> <<>>]]

\* a worker thread takes the next work item off the queue
WorkerTake(w) ==
    /\ fpc = "running"
    /\ fWorker[w].state = "idle"
    /\ fNext <= Len(fSources)
    /\ fWorker' = [fWorker EXCEPT ![w] = [state |-> "taken", task |-> fNext, content |-> ""]]
    /\ fNext' = fNext + 1
    /\ UNCHANGED <<fpc, fInput, fSources, fFuture, fReturned, fLog>>

\* content = fetch_page_content(source.url)
WorkerFetch(w) ==
    /\ fpc = "running"
    /\ fWorker[w].state = "taken"
    /\ \E content \in fetch_page_content(fSources[fWorker[w].task].url) :
          /\ fWorker' = [fWorker EXCEPT ![w].state = "fetched", ![w].content = content]
          /\ fLog' = [fLog EXCEPT !.fetched[fWorker[w].task] = Append(@, content)]
    /\ UNCHANGED <<fpc, fInput, fSources, fNext, fFuture, fReturned>>

\* if content: source.snippet = content; return source
WorkerStore(w) ==
    /\ fpc = "running"
    /\ fWorker[w].state = "fetched"
    /\ LET i == fWorker[w].task
           t == StoreTarget(i, Len(fSources))
       IN  /\ fSources' = [fSources EXCEPT ![t] = FetchedSource(@, fWorker[w].content)]
           /\ fFuture' = [fFuture EXCEPT ![i] = t]
           /\ fLog' = [fLog EXCEPT !.done = Append(@, i)]
    /\ fWorker' = [fWorker EXCEPT ![w] = [state |-> "idle", task |-> 0, content |-> ""]]
    /\ UNCHANGED <<fpc, fInput, fNext, fReturned>>

\* all futures are done: list(executor.map(...)) is returned
Collect ==
    /\ fpc = "running"
    /\ \A i \in 1..Len(fFuture) : fFuture[i] # 0
    /\ fReturned' = [k \in 1..Len(fFuture) |-> fSources[fFuture[k]]]
    /\ fpc' = "returned"
    /\ UNCHANGED <<fInput, fSources, fNext, fWorker, fFuture, fLog>>

FetchNext ==
    \/ \E w \in Workers : WorkerTake(w)
    \/ \E w \in Workers : WorkerFetch(w)
    \/ \E w \in Workers : WorkerStore(w)
    \/ Collect

----------------------------------------------------------------------------
(* dedupe_sources as a function of an arbitrary list                       *)

DedupUniverse ==
    { Src(<<"a">>, <<"p">>, "one"),
      Src(<<"A">>, <<"p", "#", "x">>, "two"),
      Src(<<" ", "a", " ">>, <<"p", "#">>, "three"),
      Src(<<"b">>, <<"p">>, "one"),
      Src(<<"a">>, <<"q">>, "one"),
      Src(<<"a", " ", "b">>, <<"q", "#", "p">>, "two") }

DedupInit ==
    /\ dpc = "in"
    /\ dIn \in SeqsUpTo(DedupUniverse, MaxLen)
    /\ dOnce = <<>>
    /\ dTwice = <<>>

DedupeOnce ==
    /\ dpc = "in"
    /\ dOnce' = dedupe_sources(dIn)
    /\ dpc' = "once"
    /\ UNCHANGED <<dIn, dTwice>>

DedupeTwice ==
    /\ dpc = "once"
    /\ dTwice' = dedupe_sources(dOnce)
    /\ dpc' = "twice"
    /\ UNCHANGED <<dIn, dOnce>>

DedupNext == DedupeOnce \/ DedupeTwice

----------------------------------------------------------------------------
(* postprocess_problem_statement as a function of an arbitrary statement:  *)
(* None, or a head, up to MaxFragments fragments and an end                *)

PostHeads == { <<>>, Sp(<<"Need", "a", "way", "to">>), Sp(<<"Need", "a", "tool", "to">>) }
PostFragments ==
    { <<" ">> \o Sp(<<"track", "invoices">>),
      <<" ", "r/excel">>,
      <<" ", "{", "draft", "}">>,
      <<" ">> \o Sp(<<"find", "the", "best", "tires">>),
      <<" ">> \o Sp(<<"address", "frustrations", "with", "slow", "apps">>),
      <<" ">> \o Sp(<<"-", "Reddit">>),
      <<" ">> \o Sp(<<"for", "replacement">>) }
PostEnds == { <<>>, <<".">>, <<"?", " ">> }

RECURSIVE Flatten(_)
Flatten(ss) == IF ss = <<>> THEN <<>> ELSE Head(ss) \o Flatten(Tail(ss))

PostInputs ==
    {NoneStmt} \cup
    { h \o Flatten(m) \o e :
        h \in PostHeads, m \in SeqsUpTo(PostFragments, MaxFragments), e \in PostEnds }

PostInit ==
    /\ ppc = "in"
    /\ pIn \in PostInputs
    /\ pOnce = <<>>
    /\ pTwice = <<>>

PostprocessOnce ==
    /\ ppc = "in"
    /\ pOnce' = postprocess_problem_statement(pIn)
    /\ ppc' = "once"
    /\ UNCHANGED <<pIn, pTwice>>

PostprocessTwice ==
    /\ ppc = "once"
    /\ pTwice' = postprocess_problem_statement(pOnce)
    /\ ppc' = "twice"
    /\ UNCHANGED <<pIn, pOnce>>

PostNext == PostprocessOnce \/ PostprocessTwice

----------------------------------------------------------------------------
(* is_pain_point and calculate_product_potential_score as functions of an  *)
(* arbitrary text, given by what the classifiers read off it               *)

\* the 'need a tool' bonus needs "tool", "app", "solution" or "software" in
\* the text, and each of them is an opportunity term
Realizable(f) == f.bonus => f.terms >= 1

CountMenu == { <<0, 0, 0, 0>>, <<1, 0, 0, 0>>, <<0, 0, 2, 0>>, <<0, 1, 4, 1>> }
ClassifyInputs ==
    { f \in { Feat(FALSE, FALSE, FALSE, FALSE, FALSE, FALSE, FALSE, v, t, i, p, b, pen) :
                 v \in 0..MaxCount, t \in 0..MaxCount, i \in 0..MaxCount,
                 p \in 0..MaxCount, b \in BOOLEAN, pen \in BOOLEAN } : Realizable(f) }
    \cup
    { Feat(n, io, r, d, c, it, o, m[1], m[2], m[3], m[4], FALSE, pen) :
        n \in BOOLEAN, io \in BOOLEAN, r \in BOOLEAN, d \in BOOLEAN, c \in BOOLEAN,
        it \in BOOLEAN, o \in BOOLEAN, m \in CountMenu, pen \in BOOLEAN }

ClassInit ==
    /\ cpc = "in"
    /\ cIn \in ClassifyInputs
    /\ cScore = 0
    /\ cVerdict = [ok |-> FALSE, reason |-> ""]

Classify ==
    /\ cpc = "in"
    /\ cScore' = calculate_product_potential_score(cIn)
    /\ cVerdict' = is_pain_point(cIn)
    /\ cpc' = "out"
    /\ UNCHANGED cIn

ClassNext == Classify

----------------------------------------------------------------------------
(* to_problem_statement as a function of an arbitrary text, given by its   *)
(* profile                                                                 *)

ShortCapture == <<"it">>
Captures == { ShortCapture, <<"app">>, Sp(<<"track", "invoices">>) }
NeedNewCaptures == { ShortCapture, <<"app">>, <<"phone">>, <<"tracker">> }
CapturesOf(i) == IF i = NeedNewRule THEN NeedNewCaptures ELSE Captures

\* every way at most MaxMatches of the rules can match
MatchSets == { m \in SUBSET (1..RuleCount) : Cardinality(m) <= MaxMatches }
RuleMatches ==
    UNION { { [i \in 1..RuleCount |->
                 IF i \in m
                 THEN (IF i = IntegrateRule THEN Cap2(c[i], Sp(<<"track", "invoices">>))
                                           ELSE Cap(c[i]))
                 ELSE NoMatch]
              : c \in [m -> Captures \cup NeedNewCaptures] }
            : m \in MatchSets }
WellFormedMatches ==
    { r \in RuleMatches : \A i \in 1..RuleCount : r[i].hit => r[i].cap \in CapturesOf(i) }

\* what extract_need_and_object returns: its default, an actionable verb
\* with its object, and an object that is too short
NeedAndObject ==
    { <<"solve", Sp(<<"this", "problem">>)>>, <<"track", <<"invoices">> >>,
      <<"have", <<"it">> >> }
\* what the generation model writes
Generated ==
    { <<"SKIP">>, Sp(<<"monitor", "servers">>),
      Sp(<<"Problem:", "find", "the", "best", "tires">>) }

NormInputs ==
    { Profile(r, vo[1], vo[2], TRUE, act, g) :
        r \in WellFormedMatches, vo \in NeedAndObject, act \in BOOLEAN, g \in Generated }
    \cup
    { Profile(NoMatches, "have", <<"it">>, FALSE, FALSE, g) : g \in Generated }

NormInit ==
    /\ npc = "in"
    /\ nIn \in NormInputs
    /\ nOut = [by |-> "none", rule |-> 0, stmt |-> Nothing]

NormalizeText ==
    /\ npc = "in"
    /\ nOut' \in Normalize(nIn)
    /\ npc' = "out"
    /\ UNCHANGED nIn

NormNext == NormalizeText

----------------------------------------------------------------------------
(* problem_finder_update.py: the problems, sources and problem_sources     *)
(* tables, and update_database_with_problems.  A table is the sequence of  *)
(* its rows in insertion order; the id of a row is its position.           *)

Row(statement, solution, neg) ==
    [statement |-> statement, solution |-> solution, has_negative_reviews |-> neg]
\* the rows of a select: the row and its id
WithIds(tbl) == [i \in 1..Len(tbl) |-> [id |-> i, row |-> tbl[i]]]

\* a in b, for strings as token sequences
IsSubstring(a, b) == \E i \in 0..(Len(b) - Len(a)) : SubSeq(b, i + 1, i + Len(a)) = a

\* upsert_problem(supabase, problem): the table after the call (the script
\* defines it and never calls it)
upsert_problem(tbl, problem) ==
    LET found == {i \in 1..Len(tbl) : tbl[i].statement = problem.statement}
    IN  IF found # {}
        THEN [tbl EXCEPT ![CHOOSE i \in found : \A j \in found : i <= j] = problem]
        ELSE Append(tbl, problem)

\* upsert_source(supabase, source): the sources table after the call and
\* the id it returns
upsert_source(tbl, url) ==
    LET found == {i \in 1..Len(tbl) : tbl[i] = url}
    IN  IF found # {}
        THEN [tbl |-> tbl, id |-> CHOOSE i \in found : \A j \in found : i <= j]
        ELSE [tbl |-> Append(tbl, url), id |-> Len(tbl) + 1]

\* link_problem_source: the link is inserted unless it is there
link_problem_source(lnk, problem_id, source_id) == lnk \cup {<<problem_id, source_id>>}

\* sorted(clusters, key=lambda c: len(c.sources), reverse=True): a stable
\* sort, most sources first
RECURSIVE sorted_clusters(_)
sorted_clusters(cls) ==
    IF cls = <<>> THEN <<>>
    ELSE LET most == CHOOSE i \in 1..Len(cls) :
                       /\ \A j \in 1..Len(cls) : Len(cls[j].sources) <= Len(cls[i].sources)
                       /\ \A j \in 1..(i - 1) : Len(cls[j].sources) < Len(cls[i].sources)
         IN  <<cls[most]>> \o sorted_clusters(RemoveAt(cls, most))

\* lines 241-248: the first problem of existing_problems whose statement
\* contains the cluster's or is contained in it, lower-cased (0: none)
FindExisting(existing, problem) ==
    LET found == {k \in 1..Len(existing) :
                    \/ IsSubstring(LowerSeq(problem), LowerSeq(existing[k].row.statement))
                    \/ IsSubstring(LowerSeq(existing[k].row.statement), LowerSeq(problem))}
    IN  IF found = {} THEN 0 ELSE existing[CHOOSE k \in found : \A j \in found : k <= j].id

\* lines 262-283: the problems table after the cluster's problem is written
\* (the row of existing_problems decides whether an update is sent)
WriteProblem(tbl, existing, cluster, existing_id) ==
    IF existing_id # 0
    THEN LET known == (CHOOSE e \in SeqToSet(existing) : e.id = existing_id).row
             should_update ==
                 \/ cluster.solution # "" /\ known.solution = ""
                 \/ cluster.has_negative_reviews /\ ~known.has_negative_reviews
         IN  IF should_update
             THEN [tbl EXCEPT ![existing_id].solution = cluster.solution,
                              ![existing_id].has_negative_reviews =
                                  cluster.has_negative_reviews]
             ELSE tbl
    ELSE Append(tbl, Row(cluster.problem, cluster.solution, cluster.has_negative_reviews))

\* lines 286-305: the sources of the cluster are upserted and linked, the
\* first n of them
RECURSIVE WriteSources(_, _, _, _, _)
WriteSources(st, lnk, problem_id, urls, n) ==
    IF n = 0 \/ urls = <<>> THEN [sources |-> st, links |-> lnk]
    ELSE LET u == upsert_source(st, Head(urls))
         IN  WriteSources(u.tbl, link_problem_source(lnk, problem_id, u.id), problem_id,
                          Tail(urls), n - 1)

StoredStatement == Append(Sp(<<"track", "invoices">>), ".")
StoreStatements == {S1, S3, StoredStatement}
InitialTables ==
    {<<>>}
    \cup { <<Row(p, sol, FALSE)>> : p \in StoreStatements, sol \in {"", "invoicely app"} }
    \cup { <<Row(pq[1], "", FALSE), Row(pq[2], "invoicely app", FALSE)>> :
             pq \in {x \in StoreStatements \X StoreStatements : x[1] # x[2]} }

\* the clusters handed to update_database_with_problems: those of one or
\* several calls of search_and_cluster, and those rebuilt from the table
StoreCluster(problem, sources, solution, neg) ==
    [problem |-> problem, sources |-> sources, solution |-> solution,
     has_negative_reviews |-> neg]
StoreClusters ==
    { StoreCluster(p, srcs, f[1], f[2]) :
        p \in {S1, StoredStatement},
        srcs \in {<<>>, <<"u">>, <<"u", "v">>},
        f \in {<<"", FALSE>>, <<"invoicely app", FALSE>>, <<"", TRUE>>,
               <<"billfast app", TRUE>>} }

\* the script reads existing_problems from the table before it searches;
\* the parameter defaults to None, which stands for no existing problem
StoreInit ==
    /\ upc = "run"
    /\ db_problems \in InitialTables
    /\ db_sources = <<>>
    /\ db_links = {}
    /\ existing_problems \in {<<>>, WithIds(db_problems)}
    /\ \E cls \in SeqsUpTo(StoreClusters, MaxBatch) : todo = sorted_clusters(cls)

\* one iteration of "for cluster in sorted_clusters" (lines 233-308); a
\* request to the database can raise, which ends the function (line 314)
UpdateCluster ==
    /\ upc = "run"
    /\ todo # <<>>
    /\ LET cluster == Head(todo)
           existing_id == FindExisting(existing_problems, cluster.problem)
           written == WriteProblem(db_problems, existing_problems, cluster, existing_id)
           problem_id == IF existing_id # 0 THEN existing_id ELSE Len(written)
       IN  IF cluster.sources = <<>>
           THEN /\ todo' = Tail(todo)
                /\ UNCHANGED <<upc, db_problems, db_sources, db_links>>
           ELSE \/ /\ upc' = "failed"
                   /\ UNCHANGED <<todo, db_problems, db_sources, db_links>>
                \/ \E n \in 0..Len(cluster.sources) :
                     LET w == WriteSources(db_sources, db_links, problem_id, cluster.sources, n)
                     IN  /\ db_problems' = written
                         /\ db_sources' = w.sources
                         /\ db_links' = w.links
                         /\ IF n = Len(cluster.sources)
                            THEN todo' = Tail(todo) /\ upc' = upc
                            ELSE todo' = todo /\ upc' = "failed"
    /\ UNCHANGED existing_problems

\* the loop is over
UpdateDone ==
    /\ upc = "run"
    /\ todo = <<>>
    /\ upc' = "done"
    /\ UNCHANGED <<todo, db_problems, db_sources, db_links, existing_problems>>

StoreNext == UpdateCluster \/ UpdateDone

----------------------------------------------------------------------------
(* The models: init_models, embed, classify_intent, the generative         *)
(* fallback of to_problem_statement and cleanup_resources                  *)

USE_ZERO_SHOT == FALSE
Unloaded == "None"
Loaded == "model"
NotBuilt == [gen |-> 0, clf |-> 0, emb |-> 0]

\* a plausible slip: the model is constructed whether or not it is loaded
AlwaysLoad(model) == TRUE
\* "if _problem_gen is None" and its like
NeedsLoad(model) == model = Unloaded

\* init_models() from the globals m: every way it can end.  Constructing a
\* model downloads and loads it, and can raise; the ifs that follow are
\* then not reached.
InitModels(m) ==
    LET Step(S, field, count, wanted) ==
            UNION { IF x.raised \/ ~(wanted /\ NeedsLoad(x[field])) THEN {x}
                    ELSE { [x EXCEPT ![field] = Loaded, !.built[count] = @ + 1],
                           [x EXCEPT !.raised = TRUE] }
                    : x \in S }
        s0 == {[gen |-> m.gen, clf |-> m.clf, emb |-> m.emb, built |-> m.built,
                raised |-> FALSE]}
        s1 == Step(s0, "gen", "gen", TRUE)
        s2 == Step(s1, "clf", "clf", USE_ZERO_SHOT)
    IN  Step(s2, "emb", "emb", TRUE)

Globals ==
    [gen |-> problem_gen, clf |-> intent_classifier, emb |-> embed_model, built |-> built]
SetGlobals(r) ==
    /\ problem_gen' = r.gen
    /\ intent_classifier' = r.clf
    /\ embed_model' = r.emb
    /\ built' = r.built

ModelInit ==
    /\ problem_gen = Unloaded
    /\ intent_classifier = Unloaded
    /\ embed_model = Unloaded
    /\ built = NotBuilt
    /\ calls = <<>>

\* init_models() called on its own
CallInitModels ==
    /\ Len(calls) < MaxCalls
    /\ \E r \in InitModels(Globals) :
          /\ SetGlobals(r)
          /\ calls' = Append(calls, [fn |-> "init_models", raised |-> r.raised])

\* embed(text): init_models(), then _embed_model.encode, which returns or
\* raises; nothing is caught
CallEmbed ==
    /\ Len(calls) < MaxCalls
    /\ \E r \in InitModels(Globals) :
          /\ SetGlobals(r)
          /\ \E encoded \in BOOLEAN :
                calls' = Append(calls, [fn |-> "embed", raised |-> r.raised \/ ~encoded])

\* classify_intent(text): the models are touched only with USE_ZERO_SHOT
CallClassifyIntent ==
    /\ Len(calls) < MaxCalls
    /\ IF USE_ZERO_SHOT
       THEN \E r \in InitModels(Globals) : SetGlobals(r)
       ELSE UNCHANGED <<problem_gen, intent_classifier, embed_model, built>>
    /\ calls' = Append(calls, [fn |-> "classify_intent", raised |-> FALSE])

\* the generative fallback of to_problem_statement (lines 1075-1126):
\* init_models() and the generation are inside try/except
CallGenerate ==
    /\ Len(calls) < MaxCalls
    /\ \E r \in InitModels(Globals) :
          /\ SetGlobals(r)
          /\ calls' = Append(calls, [fn |-> "to_problem_statement", raised |-> FALSE])

\* cleanup_resources(): the globals are set to None
CleanupResources ==
    /\ Len(calls) < MaxCalls
    /\ problem_gen' = Unloaded
    /\ intent_classifier' = Unloaded
    /\ embed_model' = Unloaded
    /\ built' = NotBuilt
    /\ calls' = Append(calls, [fn |-> "cleanup_resources", raised |-> FALSE])

ModelNext ==
    \/ CallInitModels
    \/ CallEmbed
    \/ CallClassifyIntent
    \/ CallGenerate
    \/ CleanupResources

----------------------------------------------------------------------------
(* search_for_solution and the parsing of its result by the finalization   *)
(* of search_and_cluster.  A result page carries its title (words), its    *)
(* url, whether the url is on a dictionary site, whether its content holds *)
(* a solution indicator, the solution extract_solution finds in it (<<>>   *)
(* when none: extract_solution is given the problem statement and returns  *)
(* only a solution that is_solution_relevant_to_problem accepts, so the    *)
(* second relevance test of search_for_solution agrees with it) and the    *)
(* verdict of check_solution_sentiment.                                    *)

Page(t, u, dict, indicator, solution, negative) ==
    [title |-> t, url |-> u, dict |-> dict, indicator |-> indicator,
     solution |-> solution, negative |-> negative]

\* any(site in src.url.lower() for site in dictionary_sites)
IsDictionarySite(src) == src.dict

\* the one-word and the several-word entries of solution_indicators
SolutionIndicatorWords ==
    {"tutorial", "guide", "solution", "solved", "fix", "answer", "resolving",
     "workaround", "recommended", "alternatives", "comparison"}
SolutionIndicatorPhrases ==
    {<<"how", "to">>, <<"here's", "how">>, <<"this", "is", "how">>, <<"best", "tools">>,
     <<"top", "10">>, <<"best", "apps">>, <<"ultimate", "guide">>, <<"software", "for">>,
     <<"tool", "for">>, <<"best", "platform">>}
\* any(indicator in title.lower() for indicator in ...)
TitleHasAny(title, words, phrases) ==
    \/ HasAnyWord(LowerSeq(title), words)
    \/ \E p \in phrases : HasPhrase(Sp(LowerSeq(title)), Sp(p))
is_solution_page(src) ==
    src.indicator \/ TitleHasAny(src.title, SolutionIndicatorWords, SolutionIndicatorPhrases)

\* solution_title_indicators and the listing terms of the first query
SolutionTitleIndicators == {"best", "top", "guide", "solution", "tool", "app", "software"}
ListingTerms ==
    {"best", "top", "recommended", "tools", "apps", "software", "platforms", "solutions"}
\* "best" in title or "top" in title or "recommended" in title
RecommendationTerms == {"best", "top", "recommended"}
\* solution_title_indicators of the second query
DirectTitleIndicators ==
    {"best", "top", "recommended", "tools", "apps", "software", "alternatives", "comparison"}

\* " [WARNING: Has negative reviews]"
NegativeMarker == Sp(<<"[WARNING:", "Has", "negative", "reviews]">>)
\* solution_text_with_source: the marker is appended after negative reviews
WithSource(solution, negative) ==
    IF negative THEN solution \o <<" ">> \o NegativeMarker ELSE solution
PotentialPrefix == Sp(<<"Potential", "solutions", "listed", "at:">>)
ListPrefix == Sp(<<"List", "of", "solutions:">>)

\* no result of a loop over the results
NotFound == <<"<not found>">>
\* ("", "")
EmptyPair == << <<>>, NoUrl >>

\* the loop over the results of the first query
RECURSIVE FirstPass(_)
FirstPass(results) ==
    IF results = <<>> THEN NotFound
    ELSE LET src == Head(results)
         IN  IF IsDictionarySite(src) \/ ~is_solution_page(src)
             THEN FirstPass(Tail(results))
             ELSE IF src.solution # <<>>
                  THEN << WithSource(src.solution, src.negative), src.url >>
                  ELSE IF /\ TitleHasAny(src.title, SolutionTitleIndicators, {<<"how", "to">>})
                          /\ TitleHasAny(src.title, ListingTerms, {})
                       THEN << PotentialPrefix \o <<" ">> \o Sp(src.title), src.url >>
                       ELSE FirstPass(Tail(results))

\* the loop over the results of the second, direct query
RECURSIVE SecondPass(_)
SecondPass(results) ==
    IF results = <<>> THEN NotFound
    ELSE LET src == Head(results)
         IN  IF IsDictionarySite(src) \/ ~TitleHasAny(src.title, RecommendationTerms, {})
             THEN SecondPass(Tail(results))
             ELSE IF src.solution # <<>>
                  THEN << WithSource(src.solution, src.negative), src.url >>
                  ELSE IF TitleHasAny(src.title, DirectTitleIndicators, {})
                       THEN << ListPrefix \o <<" ">> \o Sp(src.title), src.url >>
                       ELSE SecondPass(Tail(results))

\* "[WARNING: Has negative reviews:" and the url the regular expression
\* \[WARNING: Has negative reviews: (https?://[^\]]+)\] captures after it
ColonMarker == Sp(<<"[WARNING:", "Has", "negative", "reviews:">>)
BracketedUrl(token) == IF token = "http://r]" THEN ReviewUrl ELSE NoUrl
ReviewMatch(text) ==
    LET at == FindPhrase(text, ColonMarker \o <<" ">>)
        i == at + Len(ColonMarker) + 1
    IN  IF at = 0 \/ i > Len(text) THEN NoUrl ELSE BracketedUrl(text[i])
\* solution_text.split("[WARNING:")[0].strip()
RECURSIVE BeforeWarningToken(_)
BeforeWarningToken(text) ==
    IF text = <<>> \/ Head(text) = "[WARNING:" THEN <<>>
    ELSE <<Head(text)>> \o BeforeWarningToken(Tail(text))

\* lines 1373-1389 applied to a cluster without a solution: the fields the
\* finalization stores for the pair search_for_solution returned
NoSolutionYet ==
    [solution |-> <<>>, solution_url |-> NoUrl, has_negative_reviews |-> FALSE,
     review_url |-> NoUrl]
ParseSolution(cl, found) ==
    IF found[1] = <<>> THEN cl
    ELSE LET c1 == [cl EXCEPT !.solution = found[1], !.solution_url = found[2]]
             c2 == IF HasPhrase(found[1], NegativeMarker)
                   THEN [c1 EXCEPT !.has_negative_reviews = TRUE] ELSE c1
         IN  IF HasPhrase(found[1], ColonMarker)
             THEN IF ReviewMatch(found[1]) # NoUrl
                  THEN [c2 EXCEPT !.has_negative_reviews = TRUE,
                                  !.review_url = ReviewMatch(found[1]),
                                  !.solution = Strip(BeforeWarningToken(found[1]))]
                  ELSE [c2 EXCEPT !.has_negative_reviews = TRUE]
             ELSE c2

\* the pages a solution search can rank
SolutionPages ==
    { Page(<<"best", "invoicing", "apps">>, <<"w">>, TRUE, TRUE, Sp(<<"invoicely", "app">>), FALSE),
      Page(<<"invoicing", "forum">>, <<"y">>, FALSE, TRUE, Sp(<<"invoicely", "app">>), FALSE),
      Page(<<"recommended", "invoicing">>, <<"z">>, FALSE, FALSE, Sp(<<"invoicely", "app">>), TRUE),
      Page(<<"best", "invoicing", "apps">>, <<"v">>, FALSE, FALSE, <<>>, FALSE),
      Page(<<"invoicing", "guide">>, <<"g">>, FALSE, FALSE, <<>>, FALSE),
      Page(<<"best", "apps">>, <<"u">>, FALSE, FALSE, <<>>, FALSE),
      Page(<<"invoicing", "forum">>, <<"f">>, FALSE, FALSE, <<>>, FALSE) }
SolutionResults == UNION {[1..k -> SolutionPages] : k \in 0..MaxResults}
\* where an exception is raised inside the try block, if anywhere
FailPoints == {"none", "first", "second"}

SolutionInit ==
    /\ spc = "start"
    /\ sFirst \in SolutionResults
    /\ sSecond \in SolutionResults
    /\ sFail \in FailPoints
    /\ sQueries = <<>>
    /\ sRaised = FALSE
    /\ sOut = EmptyPair
    /\ sCluster = NoSolutionYet

\* lines 468-538: the first query and the loop over its results
FirstQuery ==
    /\ spc = "start"
    /\ sQueries' = Append(sQueries, "solution_query")
    /\ IF sFirst = <<>>
       THEN spc' = "returned" /\ sOut' = EmptyPair /\ sRaised' = FALSE
       ELSE IF sFail = "first"
            THEN spc' = "returned" /\ sOut' = EmptyPair /\ sRaised' = TRUE
            ELSE LET r == FirstPass(sFirst)
                 IN  /\ sRaised' = FALSE
                     /\ IF r = NotFound
                        THEN spc' = "second" /\ sOut' = sOut
                        ELSE spc' = "returned" /\ sOut' = r
    /\ UNCHANGED <<sFirst, sSecond, sFail, sCluster>>

\* lines 540-575: the direct query, the loop over its results and the
\* final return "", ""
SecondQuery ==
    /\ spc = "second"
    /\ sQueries' = Append(sQueries, "direct_query")
    /\ spc' = "returned"
    /\ IF sSecond # <<>> /\ sFail = "second"
       THEN sOut' = EmptyPair /\ sRaised' = TRUE
       ELSE LET r == SecondPass(sSecond)
            IN  /\ sRaised' = FALSE
                /\ sOut' = IF r = NotFound THEN EmptyPair ELSE r
    /\ UNCHANGED <<sFirst, sSecond, sFail, sCluster>>

\* lines 1372-1389: the finalization stores what the search returned
StoreSolution ==
    /\ spc = "returned"
    /\ spc' = "stored"
    /\ sCluster' = ParseSolution(sCluster, sOut)
    /\ UNCHANGED <<sFirst, sSecond, sFail, sQueries, sRaised, sOut>>

SolutionNext ==
    \/ FirstQuery
    \/ SecondQuery
    \/ StoreSolution

----------------------------------------------------------------------------
(* The backfill loop of search_and_cluster taken on its own: one iteration *)
(* at a time, from any list of fewer than NUM_PROBLEMS clusters and any    *)
(* non-empty queue of parked (source, embedding) pairs.                    *)

\* a parked pair: the source as fetched and the embedding of its statement
ParkedPair(src, stmt) == << src, Embedding(stmt) >>
ParkedPairs ==
    { ParkedPair(Src(<<"a">>, <<"p">>, TxtInvoices), S1),
      ParkedPair(Src(<<"c">>, <<"r">>, TxtManage), S3),
      ParkedPair(Src(<<"b">>, <<"q">>, TxtCalendar), S2),
      ParkedPair(Src(<<"f">>, <<"m">>, TxtParental), S5) }
ParkedQueues == UNION {[1..k -> ParkedPairs] : k \in 1..MaxQueue}
\* the cluster lists the loop can start from: fewer than NUM_PROBLEMS
\* clusters, each as the main loop creates it
StartClusters ==
    {<<>>} \cup
    (IF NUM_PROBLEMS > 1
     THEN UNION { {<<c>> : c \in NewCluster(stmt, Embedding(stmt), pr[1])}
                  : <<pr, stmt>> \in { <<ParkedPair(Src(<<"a">>, <<"p">>, TxtInvoices), S1), S1>>,
                                       <<ParkedPair(Src(<<"b">>, <<"q">>, TxtCalendar), S2), S2>> } }
     ELSE {})

FillInit ==
    /\ bpc = "loop"
    /\ \E cls \in StartClusters : \E um \in ParkedQueues :
          bState = [clusters |-> cls, unmatched |-> um,
                    log |-> [i \in 1..Len(cls) |-> cls[i].sources],
                    created |-> [i \in 1..Len(cls) |-> cls[i].embedding],
                    aborted |-> FALSE]
    /\ bPrev = bState

\* one iteration of the while loop of lines 1332-1363
BackfillStep ==
    /\ bpc = "loop"
    /\ ~bState.aborted
    /\ BackfillGuard(bState.clusters, bState.unmatched)
    /\ bState' \in BackfillIter(bState)
    /\ bPrev' = bState
    /\ bpc' = "loop"

\* the while condition fails, or the iteration raised
BackfillStop ==
    /\ bpc = "loop"
    /\ bState.aborted \/ ~BackfillGuard(bState.clusters, bState.unmatched)
    /\ bpc' = "done"
    /\ UNCHANGED <<bState, bPrev>>

FillNext ==
    \/ BackfillStep
    \/ BackfillStop

----------------------------------------------------------------------------
(* scripts/cleanup_urls.py: clean_url and clean_sources_in_database.  A    *)
(* url is a sequence of parts: a scheme part "https://" or "http://", the  *)
(* characters of host and path, and "#" before a fragment.  The sources    *)
(* table is the sequence of the urls of its rows, a row's id its position. *)

\* url.startswith(('http://', 'https://'))
HasScheme(url) == url # <<>> /\ Head(url) \in {"http://", "https://"}
\* clean_url(url): "" stays; the scheme is put in front when missing; the
\* url is rebuilt by urlunparse with an empty fragment
clean_url(url) ==
    IF url = <<>> THEN <<>>
    ELSE BeforeHash(IF HasScheme(url) THEN url ELSE <<"https://">> \o url)

\* urls found in the sources table
StoredUrls ==
    { <<"https://", "h", "p">>, <<"https://", "h", "p", "#", "x">>, <<"h", "p">>,
      <<"http://", "h", "p">>, <<"https://", "h", "q", "#", "x">> }
\* no two rows of the table have the same url
UniqueUrls(tbl) == \A i \in 1..Len(tbl) : \A j \in 1..Len(tbl) : tbl[i] = tbl[j] => i = j
SourceTables == {t \in UNION {[1..k -> StoredUrls] : k \in 0..MaxSources} : UniqueUrls(t)}

CleanupInit ==
    /\ kpc = "select"
    /\ kTable \in SourceTables
    /\ kRows = <<>>
    /\ kRun = 1
    /\ kUpdated = 0

\* lines 79-80: the rows of the table are read once; any request can raise,
\* which ends the function (line 109)
CleanupSelect ==
    /\ kpc = "select"
    /\ \/ kpc' = "loop" /\ kRows' = WithIds(kTable)
       \/ kpc' = "failed" /\ kRows' = kRows
    /\ kUpdated' = 0
    /\ UNCHANGED <<kTable, kRun>>

\* one iteration of "for source in sources" (lines 88-103)
CleanupSource ==
    /\ kpc = "loop"
    /\ kRows # <<>>
    /\ LET source == Head(kRows)
           original_url == source.row
           cleaned_url == clean_url(original_url)
       IN  IF original_url = <<>> \/ cleaned_url = original_url
           THEN /\ kRows' = Tail(kRows)
                /\ UNCHANGED <<kpc, kTable, kUpdated>>
           ELSE \/ /\ kTable' = [kTable EXCEPT ![source.id] = cleaned_url]
                   /\ kUpdated' = kUpdated + 1
                   /\ kRows' = Tail(kRows)
                   /\ kpc' = kpc
                \/ /\ kpc' = "failed"
                   /\ UNCHANGED <<kTable, kUpdated, kRows>>
    /\ UNCHANGED kRun

\* the loop is over; the script is run a second time
CleanupFinish ==
    /\ kpc = "loop"
    /\ kRows = <<>>
    /\ IF kRun = 1
       THEN kpc' = "select" /\ kRun' = 2
       ELSE kpc' = "done" /\ kRun' = kRun
    /\ UNCHANGED <<kTable, kRows, kUpdated>>

CleanupNext ==
    \/ CleanupSelect
    \/ CleanupSource
    \/ CleanupFinish

----------------------------------------------------------------------------
(* Specifications                                                          *)

PipeIdle ==
    /\ pc = "idle" /\ clusters = <<>> /\ visited_queries = {} /\ to_search = <<>>
    /\ unmatched_sources = <<>> /\ batch = <<>> /\ idx = 0 /\ returned = <<>>
    /\ searchLog = <<>> /\ createdLog = <<>> /\ appendLog = <<>>
    /\ lastStep = [op |-> "idle"]
FetchIdle ==
    /\ fpc = "idle" /\ fInput = <<>> /\ fSources = <<>> /\ fNext = 0 /\ fWorker = <<>>
    /\ fFuture = <<>> /\ fReturned = <<>> /\ fLog = <<>>
DedupIdle == dpc = "idle" /\ dIn = <<>> /\ dOnce = <<>> /\ dTwice = <<>>
PostIdle == ppc = "idle" /\ pIn = <<>> /\ pOnce = <<>> /\ pTwice = <<>>
ClassIdle == cpc = "idle" /\ cIn = <<>> /\ cScore = 0 /\ cVerdict = <<>>
NormIdle == npc = "idle" /\ nIn = <<>> /\ nOut = <<>>
StoreIdle ==
    /\ upc = "idle" /\ db_problems = <<>> /\ db_sources = <<>> /\ db_links = {}
    /\ existing_problems = <<>> /\ todo = <<>>
ModelIdle ==
    /\ problem_gen = "idle" /\ intent_classifier = "idle" /\ embed_model = "idle"
    /\ built = NotBuilt /\ calls = <<>>
SolutionIdle ==
    /\ spc = "idle" /\ sFirst = <<>> /\ sSecond = <<>> /\ sFail = "none"
    /\ sQueries = <<>> /\ sRaised = FALSE /\ sOut = <<>> /\ sCluster = <<>>
FillIdle == bpc = "idle" /\ bState = <<>> /\ bPrev = <<>>
CleanupIdle ==
    kpc = "idle" /\ kTable = <<>> /\ kRows = <<>> /\ kRun = 0 /\ kUpdated = 0
AuxIdle == SolutionIdle /\ FillIdle /\ CleanupIdle
FuncIdle == PostIdle /\ ClassIdle /\ NormIdle /\ StoreIdle /\ ModelIdle /\ AuxIdle

Init == PipeInit /\ FetchIdle /\ DedupIdle /\ FuncIdle
Next == PipeNext /\ UNCHANGED <<fetchVars, dedupVars, funcVars>>
Spec == Init /\ [][Next]_vars

\* search_and_cluster runs to its end: no step of it waits on anything but
\* a collaborator call, and those return or raise
SpecLive == Spec /\ WF_vars(Next)

FetchSpecInit == FetchInit /\ PipeIdle /\ DedupIdle /\ FuncIdle
FetchSpecNext == FetchNext /\ UNCHANGED <<pipeVars, dedupVars, funcVars>>
SpecFetch == FetchSpecInit /\ [][FetchSpecNext]_vars

DedupSpecInit == DedupInit /\ PipeIdle /\ FetchIdle /\ FuncIdle
DedupSpecNext == DedupNext /\ UNCHANGED <<pipeVars, fetchVars, funcVars>>
SpecDedupe == DedupSpecInit /\ [][DedupSpecNext]_vars

\* postprocess_problem_statement called on its own
PostSpecInit ==
    /\ PostInit
    /\ PipeIdle /\ FetchIdle /\ DedupIdle /\ ClassIdle /\ NormIdle /\ StoreIdle /\ ModelIdle /\ AuxIdle
PostSpecNext ==
    /\ PostNext
    /\ UNCHANGED <<pipeVars, fetchVars, dedupVars, classVars, normVars, storeVars, modelVars, auxVars>>
SpecPost == PostSpecInit /\ [][PostSpecNext]_vars

\* is_pain_point and calculate_product_potential_score called on their own
ClassSpecInit ==
    /\ ClassInit
    /\ PipeIdle /\ FetchIdle /\ DedupIdle /\ PostIdle /\ NormIdle /\ StoreIdle /\ ModelIdle /\ AuxIdle
ClassSpecNext ==
    /\ ClassNext
    /\ UNCHANGED <<pipeVars, fetchVars, dedupVars, postVars, normVars, storeVars, modelVars, auxVars>>
SpecClassify == ClassSpecInit /\ [][ClassSpecNext]_vars

\* to_problem_statement called on its own
NormSpecInit ==
    /\ NormInit
    /\ PipeIdle /\ FetchIdle /\ DedupIdle /\ PostIdle /\ ClassIdle /\ StoreIdle /\ ModelIdle /\ AuxIdle
NormSpecNext ==
    /\ NormNext
    /\ UNCHANGED <<pipeVars, fetchVars, dedupVars, postVars, classVars, storeVars, modelVars, auxVars>>
SpecNormalize == NormSpecInit /\ [][NormSpecNext]_vars

\* update_database_with_problems called on a table
StoreSpecInit ==
    /\ StoreInit
    /\ PipeIdle /\ FetchIdle /\ DedupIdle /\ PostIdle /\ ClassIdle /\ NormIdle /\ ModelIdle /\ AuxIdle
StoreSpecNext ==
    /\ StoreNext
    /\ UNCHANGED <<pipeVars, fetchVars, dedupVars, postVars, classVars, normVars, modelVars, auxVars>>
SpecStore == StoreSpecInit /\ [][StoreSpecNext]_vars

\* the calls that use the models, in any order
ModelSpecInit ==
    /\ ModelInit
    /\ PipeIdle /\ FetchIdle /\ DedupIdle /\ PostIdle /\ ClassIdle /\ NormIdle /\ StoreIdle /\ AuxIdle
ModelSpecNext ==
    /\ ModelNext
    /\ UNCHANGED <<pipeVars, fetchVars, dedupVars, postVars, classVars, normVars, storeVars, auxVars>>
SpecModels == ModelSpecInit /\ [][ModelSpecNext]_vars

\* search_for_solution called on its own, and its result stored
SolutionSpecInit ==
    /\ SolutionInit
    /\ PipeIdle /\ FetchIdle /\ DedupIdle
    /\ PostIdle /\ ClassIdle /\ NormIdle /\ StoreIdle /\ ModelIdle /\ FillIdle /\ CleanupIdle
SolutionSpecNext ==
    /\ SolutionNext
    /\ UNCHANGED <<pipeVars, fetchVars, dedupVars,
                   postVars, classVars, normVars, storeVars, modelVars, fillVars, cleanVars>>
SpecSolution == SolutionSpecInit /\ [][SolutionSpecNext]_vars

\* the backfill loop started from any clusters and any unmatched queue
FillSpecInit ==
    /\ FillInit
    /\ PipeIdle /\ FetchIdle /\ DedupIdle
    /\ PostIdle /\ ClassIdle /\ NormIdle /\ StoreIdle /\ ModelIdle /\ SolutionIdle /\ CleanupIdle
FillSpecNext ==
    /\ FillNext
    /\ UNCHANGED <<pipeVars, fetchVars, dedupVars,
                   postVars, classVars, normVars, storeVars, modelVars, solVars, cleanVars>>
SpecBackfill == FillSpecInit /\ [][FillSpecNext]_vars

\* clean_sources_in_database run twice on a table of sources
CleanupSpecInit ==
    /\ CleanupInit
    /\ PipeIdle /\ FetchIdle /\ DedupIdle
    /\ PostIdle /\ ClassIdle /\ NormIdle /\ StoreIdle /\ ModelIdle /\ SolutionIdle /\ FillIdle
CleanupSpecNext ==
    /\ CleanupNext
    /\ UNCHANGED <<pipeVars, fetchVars, dedupVars,
                   postVars, classVars, normVars, storeVars, modelVars, solVars, fillVars>>
SpecCleanup == CleanupSpecInit /\ [][CleanupSpecNext]_vars

\* search_and_cluster, and its backfill loop started from any state
SpecClusters == (Init \/ FillSpecInit) /\ [][Next \/ FillSpecNext]_vars

\* postprocess_problem_statement called on its own or by the finalization
\* of search_and_cluster
SpecStatements == (Init \/ PostSpecInit) /\ [][Next \/ PostSpecNext]_vars

----------------------------------------------------------------------------
(* Properties                                                              *)

\* the identity of a source: title stripped and lower-cased, url up to the
\* first '#'
IdentityKey(s) == <<LowerSeq(Strip(s.title)), BeforeHash(s.url)>>
Keys(srcs) == {IdentityKey(srcs[i]) : i \in 1..Len(srcs)}
Embeddings(cls) == [i \in 1..Len(cls) |-> cls[i].embedding]

\* C1: matching in the main loop is first-fit in creation order.  A
\* candidate whose embedding reaches SIM_THRESHOLD with some cluster is
\* appended to the earliest such cluster only and creates none; a candidate
\* below the threshold for every cluster, with fewer than NUM_PROBLEMS
\* clusters, creates exactly one cluster holding only that source.
C1_Step ==
    (/\ pc = "batch"
     /\ batch # <<>>
     /\ lastStep'.op \in {"matched", "created", "parked"})
    => LET src == Head(batch)
           emb == lastStep'.emb
           n == Len(clusters)
           ok == {i \in 1..n : CosSimAtLeast(emb, clusters[i].embedding)}
       IN  /\ ok # {} =>
                /\ Len(clusters') = n
                /\ \E m \in ok :
                      /\ \A j \in ok : m <= j
                      /\ clusters'[m].sources = Append(clusters[m].sources, src)
                      /\ \A j \in 1..n : j # m => clusters'[j] = clusters[j]
           /\ (ok = {} /\ n < NUM_PROBLEMS) =>
                /\ Len(clusters') = n + 1
                /\ clusters'[n + 1].sources = <<src>>
                /\ clusters'[n + 1].embedding = emb
                /\ \A j \in 1..n : clusters'[j] = clusters[j]
C1_FirstFit == [][C1_Step]_vars

\* C1 witness: a candidate was appended to cluster 1 although a later
\* cluster clears the threshold with a higher similarity
C1_Witness ==
    /\ lastStep.op = "matched"
    /\ lastStep.cl = 1
    /\ \E j \in 2..Len(clusters) :
          /\ CosSimAtLeast(lastStep.emb, clusters[j].embedding)
          /\ CosSimGreater(lastStep.emb, clusters[j].embedding, clusters[1].embedding)

\* C2 (as claimed): in the returned list no two clusters hold a source with
\* the same identity key
C2_NoSharedSource ==
    pc = "done" =>
        \A i \in 1..Len(returned) : \A j \in 1..Len(returned) :
            i # j => Keys(returned[i].sources) \cap Keys(returned[j].sources) = {}

\* C3: in every returned cluster no two sources share the identity key
C3_NoDuplicateInCluster ==
    pc = "done" =>
        \A i \in 1..Len(returned) :
            \A a \in 1..Len(returned[i].sources) : \A b \in 1..Len(returned[i].sources) :
                a # b => IdentityKey(returned[i].sources[a]) # IdentityKey(returned[i].sources[b])

\* C3 witness: a returned cluster to which two sources with the same key
\* but different raw title and url had been appended
C3_Witness ==
    /\ pc = "done"
    /\ \E i \in 1..Len(returned) :
          \E a \in 1..Len(appendLog[i]) : \E b \in 1..Len(appendLog[i]) :
              /\ a < b
              /\ IdentityKey(appendLog[i][a]) = IdentityKey(appendLog[i][b])
              /\ appendLog[i][a].title # appendLog[i][b].title
              /\ appendLog[i][a].url # appendLog[i][b].url

\* C4: every returned cluster has at most max(EXPANSION_RESULTS_PER_PROBLEM, 6)
\* sources, the first that many of its de-duplicated list of appended
\* sources, in the order they were appended
C4_SourcesCapped ==
    pc = "done" =>
        \A i \in 1..Len(returned) :
            /\ Len(returned[i].sources) <= Max(EXPANSION_RESULTS_PER_PROBLEM, 6)
            /\ returned[i].sources =
                  Take(dedupe_sources(appendLog[i]), Max(EXPANSION_RESULTS_PER_PROBLEM, 6))

\* C4 witness: a returned cluster whose de-duplicated list was longer than
\* the cap
C4_Witness ==
    /\ pc = "done"
    /\ \E i \in 1..Len(returned) :
          /\ Len(dedupe_sources(appendLog[i])) > Max(EXPANSION_RESULTS_PER_PROBLEM, 6)
          /\ Len(appendLog[i]) > Len(dedupe_sources(appendLog[i]))

\* C5: clusters are never deleted or reordered, and the result is the
\* first NUM_PROBLEMS clusters in creation order
C5_CreationOrder ==
    /\ Embeddings(clusters) = createdLog
    /\ pc = "done" =>
          /\ Len(returned) = Min(NUM_PROBLEMS, Len(createdLog))
          /\ \A i \in 1..Len(returned) : returned[i].embedding = createdLog[i]

\* C5 witness: a run that returned NUM_PROBLEMS clusters
C5_Witness == pc = "done" /\ Len(returned) = NUM_PROBLEMS /\ Len(returned) >= 2

\* C6 (as claimed): every run ends by returning a list of clusters
C6_ReturnsList == <>(pc = "done")

\* C7: no query is searched twice in the main loop, and every searched
\* query is in visited_queries
C7_NoRepeatedSearch ==
    /\ \A i \in 1..Len(searchLog) : \A j \in 1..Len(searchLog) :
          i # j => searchLog[i] # searchLog[j]
    /\ SeqToSet(searchLog) \subseteq visited_queries

\* C7 witness: a popped query that had been searched before was skipped
C7_Witness ==
    /\ lastStep.op = "skip-visited"
    /\ lastStep.query \in SeqToSet(searchLog)

\* C8 (as claimed): no collaborator failure aborts search_and_cluster
C8_NoAbort == pc # "aborted"

\* C9: fetch_contents_for_sources returns the input sources in input
\* order, fetches each once, and each source's snippet is its own fetched
\* text when that is non-empty and its old snippet otherwise; title and url
\* never change
C9_FetchOwnSource ==
    /\ \A i \in 1..Len(fSources) :
          /\ Len(fLog.fetched[i]) <= 1
          /\ fSources[i].title = fInput[i].title
          /\ fSources[i].url = fInput[i].url
    /\ fpc = "returned" =>
          /\ Len(fReturned) = Len(fInput)
          /\ \A i \in 1..Len(fInput) :
                /\ Len(fLog.fetched[i]) = 1
                /\ fReturned[i].title = fInput[i].title
                /\ fReturned[i].url = fInput[i].url
                /\ fReturned[i].snippet =
                      IF fLog.fetched[i][1] # "" THEN fLog.fetched[i][1]
                      ELSE fInput[i].snippet

\* C9 witness: the pool finished the sources out of input order, one fetch
\* yielded text and another nothing
C9_Witness ==
    /\ fpc = "returned"
    /\ \E a \in 1..Len(fLog.done) : \E b \in 1..Len(fLog.done) :
          a < b /\ fLog.done[a] > fLog.done[b]
    /\ \E i \in 1..Len(fInput) : fReturned[i].snippet # fInput[i].snippet
    /\ \E i \in 1..Len(fInput) :
          fLog.fetched[i] = <<"">> /\ PageOf(fInput[i].url) # ""

\* C10: dedupe_sources(dedupe_sources(L)) = dedupe_sources(L)
C10_DedupeIdempotent == dpc = "twice" => dTwice = dOnce

\* C10 witness: a list from which the first application removed something
C10_Witness == dpc = "twice" /\ Len(dOnce) < Len(dIn) /\ Len(dOnce) >= 2

\* the elements of L at the positions in I, in the order of L
RECURSIVE KeepAt(_, _, _)
KeepAt(L, I, i) ==
    IF i > Len(L) THEN <<>>
    ELSE (IF i \in I THEN <<L[i]>> ELSE <<>>) \o KeepAt(L, I, i + 1)
\* the positions of L that hold the first element with their identity key
FirstPositions(L) ==
    {i \in 1..Len(L) : \A j \in 1..(i - 1) : IdentityKey(L[j]) # IdentityKey(L[i])}

\* C11: dedupe_sources(L) is the subsequence of L that keeps, for each
\* identity key, exactly the first element of L with that key, in the order
\* of L; so it is never longer than L
C11_StableFirstOccurrence ==
    dpc \in {"once", "twice"} =>
        /\ dOnce = KeepAt(dIn, FirstPositions(dIn), 1)
        /\ Len(dOnce) <= Len(dIn)

\* C11 witness: a list in which a later element repeats the key of an
\* earlier, different element, with an element of another key between them
C11_Witness ==
    /\ dpc = "once"
    /\ Len(dIn) = 3
    /\ IdentityKey(dIn[1]) = IdentityKey(dIn[3])
    /\ dIn[1] # dIn[3]
    /\ IdentityKey(dIn[2]) # IdentityKey(dIn[1])
    /\ dOnce = <<dIn[1], dIn[2]>>

\* C12 (as claimed): postprocess_problem_statement applied to its own result
\* returns it unchanged
C12_PostprocessIdempotent == ppc = "twice" => pTwice = pOnce

\* a statement is a non-empty string that ends in ".", "!" or "?"
WellFormed(p) == p # <<>> /\ p # NoneStmt /\ p[Len(p)] \in {".", "!", "?"}

\* C13: postprocess_problem_statement returns, for every input including
\* None and the empty string, a non-empty string ending in ".", "!" or "?";
\* so every cluster returned by search_and_cluster has such a problem
C13_WellFormed ==
    /\ ppc \in {"once", "twice"} => WellFormed(pOnce)
    /\ ppc = "twice" => WellFormed(pTwice)
    /\ pc = "done" => \A i \in 1..Len(returned) : WellFormed(returned[i].problem)

\* C13 witness: a site suffix was cut off together with the closing mark,
\* and the statement, long enough to be kept, was closed again
C13_Witness ==
    /\ ppc = "once"
    /\ HasWord(pIn, "Reddit")
    /\ ~HasWord(pOnce, "Reddit")
    /\ Len(pIn) >= Len(pOnce)
    /\ SubSeq(pOnce, 1, Len(pOnce) - 1) = SubSeq(pIn, 1, Len(pOnce) - 1)
    /\ Len(pOnce) > 10

\* C14: calculate_product_potential_score returns a value in [0, 1]: the
\* weighted sum of the capped counts, the bonus and the penalty, clamped
\* (in hundredths)
C14_ScoreInUnitInterval ==
    cpc = "out" =>
        LET sum == 20 + Min(50, 15 * cIn.verbs) + Min(40, 15 * cIn.terms)
                      - Min(30, 8 * cIn.info) + Min(50, 12 * cIn.patterns)
                      + (IF cIn.bonus THEN 30 ELSE 0) - (IF cIn.penalty THEN 20 ELSE 0)
        IN  /\ cScore \in 0..100
            /\ cScore = (IF sum < 0 THEN 0 ELSE IF sum > 100 THEN 100 ELSE sum)

\* C14 witness: a text whose sum exceeds 1 was scored, and scored 1
C14_Witness ==
    /\ cpc = "out"
    /\ cIn.verbs * 15 > 50 /\ cIn.patterns * 12 > 50 /\ cIn.bonus
    /\ cScore = 100

\* C15: is_pain_point rejects with the reason of the first of the four
\* filters (NSFW, info-only, already resolved, discussion or opinion) that
\* fires, whatever the other signals; when none fires it accepts if and
\* only if some signal is present and the score reaches the threshold
C15_FixedOrder ==
    cpc = "out" =>
        IF cIn.nsfw THEN cVerdict = [ok |-> FALSE, reason |-> "contains NSFW content"]
        ELSE IF cIn.info_only THEN cVerdict = [ok |-> FALSE, reason |-> "info-only"]
        ELSE IF cIn.resolved THEN cVerdict = [ok |-> FALSE, reason |-> "already resolved"]
        ELSE IF cIn.discussion
             THEN cVerdict = [ok |-> FALSE, reason |-> "discussion or opinion"]
        ELSE cVerdict.ok <=>
                /\ cIn.complaint \/ cIn.intent \/ cIn.verbs > 0 \/ cIn.opportunity
                /\ cScore >= PRODUCT_SCORE_THRESHOLD

\* C15 witness: a text that is both NSFW and info-only, with a signal and a
\* passing score, was rejected as NSFW
C15_Witness ==
    /\ cpc = "out"
    /\ cIn.nsfw /\ cIn.info_only /\ cIn.intent /\ cScore >= PRODUCT_SCORE_THRESHOLD
    /\ cVerdict = [ok |-> FALSE, reason |-> "contains NSFW content"]

\* C16 (as claimed): to_problem_statement returns the template of the first
\* rule, in the fixed order, whose pattern matches with a capture longer
\* than the rule's minimum length; once a rule qualifies, neither the
\* generic extraction nor the generation model is consulted
C16_FirstQualifyingRuleWins ==
    npc = "out" =>
        \A i \in 1..RuleCount :
            (/\ nIn.rules[i].hit
             /\ CharLen(nIn.rules[i].cap) > (IF i \in {6, 11} THEN 2 ELSE 3)
             /\ i = 6 => CharLen(nIn.rules[i].cap2) > 2
             /\ \A j \in 1..(i - 1) :
                   ~(/\ nIn.rules[j].hit
                     /\ CharLen(nIn.rules[j].cap) > (IF j \in {6, 11} THEN 2 ELSE 3)
                     /\ j = 6 => CharLen(nIn.rules[j].cap2) > 2))
            => nOut.by = "rule" /\ nOut.rule = i

\* C17 (as claimed): starting from a table in which no two problems have
\* the same statement, update_database_with_problems leaves no two problems
\* with the same statement, whatever the batch of clusters
C17_UniqueStatements ==
    \A i \in 1..Len(db_problems) : \A j \in 1..Len(db_problems) :
        i # j => db_problems[i].statement # db_problems[j].statement

\* C18: with no cleanup_resources in between, each model is constructed at
\* most once, whatever the sequence of calls to init_models, embed,
\* classify_intent and the generative fallback; and a call made when the
\* models are loaded constructs nothing and leaves the globals as they are
C18_ModelsBuiltOnce ==
    /\ [](built.gen <= 1 /\ built.clf <= 1 /\ built.emb <= 1)
    /\ [][(/\ problem_gen = Loaded /\ embed_model = Loaded
           /\ calls' # <<>> /\ calls'[Len(calls')].fn # "cleanup_resources")
          => UNCHANGED <<problem_gen, intent_classifier, embed_model, built>>]_vars

\* C18 witness: both models were constructed by the first call and three
\* more calls that use them were made without another construction
C18_Witness ==
    /\ Len(calls) >= 4
    /\ \A i \in 1..Len(calls) :
          calls[i].fn \in {"embed", "to_problem_statement", "init_models"}
    /\ \E i \in 1..Len(calls) : calls[i].fn = "embed" /\ ~calls[i].raised
    /\ \E i \in 1..Len(calls) : calls[i].fn = "to_problem_statement"
    /\ calls[Len(calls)].fn = "init_models"
    /\ built.gen = 1 /\ built.emb = 1

\* C19: in the main loop a new cluster appends exactly two queries to the
\* tail of to_search, the statement in double quotes and then the bare
\* statement; a candidate that is matched, parked or dropped leaves
\* to_search unchanged; a query is always taken from the head
C19_FrontierExpansion ==
    [][/\ lastStep'.op = "created" =>
           LET problem == clusters'[Len(clusters')].problem
           IN  /\ Len(clusters') = Len(clusters) + 1
               /\ to_search' = to_search \o << [text |-> problem, quoted |-> TRUE, hint |-> ""],
                                               [text |-> problem, quoted |-> FALSE, hint |-> ""] >>
       /\ lastStep'.op \in {"matched", "parked", "dropped"} => to_search' = to_search
       /\ lastStep'.op \in {"searched", "skip-visited"} =>
           /\ to_search # <<>>
           /\ lastStep'.query = to_search[1]
           /\ to_search' = SubSeq(to_search, 2, Len(to_search))]_vars

\* C19 witness: the two queries of a new cluster reached the head of the
\* queue and were searched, the quoted one first
C19_Witness ==
    \E i \in 1..Len(searchLog) : \E j \in 1..Len(searchLog) :
        /\ i < j
        /\ searchLog[i].quoted /\ ~searchLog[j].quoted
        /\ searchLog[i].text = searchLog[j].text
        /\ \E k \in 1..Len(clusters) : clusters[k].problem = searchLog[i].text

\* C20: once a cluster's solution is non-empty, no later step of
\* search_and_cluster changes its solution or its solution_url
C20_SolutionPopulatedOnce ==
    [][\A i \in 1..Len(clusters) :
          clusters[i].solution # "" =>
              /\ i <= Len(clusters')
              /\ clusters'[i].solution = clusters[i].solution
              /\ clusters'[i].solution_url = clusters[i].solution_url]_vars

\* C20 witness: a cluster whose solution came from one of its sources in
\* the main loop was matched again, went through the later passes and was
\* returned with that solution
C20_Witness ==
    /\ pc = "done"
    /\ \E i \in 1..Len(returned) :
          /\ returned[i].solution = "invoicely app"
          /\ returned[i].solution_url = <<"p", "6">>
          /\ Len(appendLog[i]) >= 3
          /\ \E k \in 1..(Len(appendLog[i]) - 1) : appendLog[i][k].url = <<"p", "6">>

\* C21: search_for_solution returns the pair of empty strings only after
\* both queries have been issued and neither produced a candidate, or
\* after an exception: whenever the first query yields no accepted
\* solution, also when it returns no results at all, the direct query runs
C21_FallsBackToDirectQuery ==
    (spc \in {"returned", "stored"} /\ sOut = EmptyPair /\ ~sRaised)
        => sQueries = <<"solution_query", "direct_query">>

\* C22: when search_for_solution returns a text that carries the marker
\* it appends for a negatively reviewed solution, the finalized cluster
\* has has_negative_reviews set and its solution no longer holds the marker
C22_MarkerParsedOut ==
    (spc = "stored" /\ HasPhrase(sOut[1], NegativeMarker))
        => /\ sCluster.has_negative_reviews
           /\ ~HasPhrase(sCluster.solution, NegativeMarker)
           /\ ~HasWord(sCluster.solution, "[WARNING:")

\* C23: the problem statement of a cluster, normalized from the title and
\* the fetched page of a source that passed the NSFW filter of the
\* pipeline, holds no term of NSFW_TERMS
C23_NoNsfwInStatements ==
    \A i \in 1..Len(clusters) : ~HasNsfwTerm(clusters[i].problem)

\* the statements the main loop is to drop: None, the placeholder built
\* when nothing specific could be extracted, a statement holding "find the
\* best" and one that begins with "need a way to need"
ToBeDropped(p) ==
    \/ p = NoneStmt
    \/ p \in {Generic, Placeholder}
    \/ HasPhrase(LowerSeq(p), Sp(<<"find", "the", "best">>))
    \/ StartsWith(LowerSeq(p), Sp(<<"need", "a", "way", "to", "need">>))

\* C24: in the main loop a candidate whose normalized statement is None, a
\* known-generic placeholder, holds "find the best" or begins with "need a
\* way to need" is dropped before embedding: it is not embedded, not
\* appended to a cluster, creates no cluster and is not parked
C24_DroppedBeforeEmbedding ==
    [][lastStep'.op \in {"embed-raised", "matched", "parked", "created"}
          => ~ToBeDropped(lastStep'.stmt)]_vars

\* the pairs of a queue at or above, and below, SIM_THRESHOLD with emb
Similar(queue, emb) ==
    LET Test(pair) == CosSimAtLeast(emb, pair[2]) IN SelectSeq(queue, Test)
Dissimilar(queue, emb) ==
    LET Test(pair) == ~CosSimAtLeast(emb, pair[2]) IN SelectSeq(queue, Test)

\* C25: when an iteration of the backfill loop creates a cluster from the
\* pair at the head of the unmatched queue, every other pair of the queue
\* at or above SIM_THRESHOLD with the new cluster's embedding is appended
\* to the new cluster and removed from the queue, and no pair below the
\* threshold is removed or appended
C25_BackfillAbsorbs ==
    (bpc # "idle" /\ Len(bState.clusters) = Len(bPrev.clusters) + 1)
    => LET new == bState.clusters[Len(bState.clusters)]
           rest == Tail(bPrev.unmatched)
           absorbed == Similar(rest, new.embedding)
       IN  /\ ~bState.aborted
           /\ new.sources = <<bPrev.unmatched[1][1]>>
                               \o [i \in 1..Len(absorbed) |-> absorbed[i][1]]
           /\ bState.unmatched = Dissimilar(rest, new.embedding)

\* C26: a cluster's embedding is fixed at creation.  No step removes a
\* cluster or changes its embedding; only the finalization of a cluster
\* changes its problem, and it leaves the embedding computed from the
\* statement before the clean-up
C26_EmbeddingFixed ==
    [][\A i \in 1..Len(clusters) :
          /\ i <= Len(clusters')
          /\ clusters'[i].embedding = clusters[i].embedding
          /\ clusters'[i].embedding = createdLog[i]
          /\ clusters'[i].problem # clusters[i].problem
               => /\ lastStep'.op = "finalized"
                  /\ lastStep'.cl = i
                  /\ clusters'[i].problem = PostprocessedStatement[clusters[i].problem]]_vars

\* C26 witness: a returned cluster whose statement was rewritten by the
\* finalization and whose embedding is still that of the placeholder it was
\* created from, with a source appended after its creation
C26_Witness ==
    /\ pc = "done"
    /\ \E i \in 1..Len(returned) :
          /\ returned[i].embedding = Embedding(Placeholder)
          /\ returned[i].problem # Placeholder
    /\ \E i \in 1..Len(returned) :
          Len(returned[i].sources) > 1 /\ returned[i].solution # ""

\* C27: the number of clusters never exceeds NUM_PROBLEMS.  The main loop
\* and the backfill loop create a cluster only below the target, and the
\* main loop issues no search once the target is reached
C27_ClusterCountBounded ==
    /\ [](Len(clusters) <= NUM_PROBLEMS)
    /\ [](bpc # "idle" => Len(bState.clusters) <= NUM_PROBLEMS)
    /\ [][
           /\ Len(clusters') > Len(clusters)
               => Len(clusters) < NUM_PROBLEMS /\ Len(clusters') = Len(clusters) + 1
           /\ (bpc # "idle" /\ Len(bState'.clusters) > Len(bState.clusters))
               => /\ Len(bState.clusters) < NUM_PROBLEMS
                  /\ Len(bState'.clusters) = Len(bState.clusters) + 1
           /\ (pc # "idle" /\ searchLog' # searchLog /\ pc = "loop")
               => Len(clusters) < NUM_PROBLEMS]_vars

\* C27 witness: the target is reached in the main loop while queries are
\* still waiting, and the rest of the result batch is processed (a
\* candidate is parked)
C27_Witness ==
    /\ pc = "batch"
    /\ Len(clusters) = NUM_PROBLEMS
    /\ lastStep.op = "parked"
    /\ to_search # <<>>

\* the backfill loop has created the cluster that reaches the target and
\* pairs are still parked
BackfillAtTarget ==
    /\ bpc = "loop"
    /\ Len(bState.clusters) = NUM_PROBLEMS
    /\ Len(bPrev.clusters) = NUM_PROBLEMS - 1
    /\ bState.unmatched # <<>>

\* C28: in a run of search_and_cluster the unmatched queue is non-empty
\* only when the number of clusters is NUM_PROBLEMS, so the backfill loop
\* makes no iteration: it changes no cluster, and no pair ever leaves the
\* queue
C28_BackfillNeverIterates ==
    /\ [](unmatched_sources # <<>> => Len(clusters) = NUM_PROBLEMS)
    /\ [][
           /\ Len(unmatched_sources') >= Len(unmatched_sources)
           /\ SubSeq(unmatched_sources', 1, Len(unmatched_sources)) = unmatched_sources
           /\ lastStep'.op = "backfill"
               => /\ ~lastStep'.iterated
                  /\ clusters' = clusters
                  /\ unmatched_sources' = unmatched_sources]_vars

\* C28 witness: the backfill pass is reached with a parked pair in the queue
C28_Witness ==
    /\ lastStep.op = "backfill"
    /\ unmatched_sources # <<>>
    /\ pc = "finalize"

\* C29: clean_sources_in_database preserves the uniqueness of sources by
\* url.  On a table in which no two rows have the same url, after a run
\* that rewrote every url with clean_url no two rows have the same url,
\* and a second run updates no row
C29_CleanupKeepsUrlsUnique ==
    /\ (kRun = 2 \/ kpc = "done") => UniqueUrls(kTable)
    /\ (kRun = 2 /\ kpc \in {"loop", "done"}) => kUpdated = 0

\* C30: update_database_with_problems never loses an existing solution.
\* A row of the problems table whose solution is not empty keeps that
\* solution through the processing of any cluster, also of a cluster that
\* reports negative reviews, and no row is deleted
C30_ExistingSolutionKept ==
    [][
        /\ Len(db_problems') >= Len(db_problems)
        /\ \A i \in 1..Len(db_problems) :
             db_problems[i].solution # "" =>
                 db_problems'[i].solution = db_problems[i].solution
    ]_vars
====
